---- MODULE Spec2Model ----
(***************************************************************************)
(* Verification model of signal-forge: the query builder, the rationale    *)
(* generator and the customer / partner discovery orchestrators.           *)
(*                                                                         *)
(* Strings are TLA+ strings; Len, \o and SubSeq work on them character by  *)
(* character, so substring tests, strip(), lower() and split() are         *)
(* computed as the Python code computes them.                              *)
(***************************************************************************)
EXTENDS Integers, Sequences, FiniteSets, TLC


VARIABLES
    qb_context,     \* BusinessContext handed to the QueryBuilder
    qb_filters,     \* filter map handed to the QueryBuilder
    qb_base,        \* base query handed to refine_query
    qb_op,          \* which QueryBuilder operation has run ("idle" before)
    qb_out,         \* list of queries returned (refine_query: a 1-element list)
    qb_raised,      \* exception type raised by the operation, "" if none
    rat_company,    \* CompanyInfo handed to generate_rationale
    rat_score,      \* MatchScore handed to generate_rationale
    rat_entity,     \* entity_type handed to generate_rationale
    rat_outcome,    \* outcome of the agent call made by generate_rationale
    rat_out,        \* Rationale returned by generate_rationale (None before)
    flt_entity,     \* which orchestrator's relevance filter is applied
    flt_scores,     \* the relevance each candidate gets from the scorer, in order
    flt_op,         \* "idle" before the filter has run, then "returned" / "raised"
    flt_passed,     \* candidates that passed the threshold, before the cap
    flt_out,        \* candidates the filter returned
    entry,          \* how the orchestrator is built: "run_discovery" or "direct"
    orch,           \* "customer" or "partner" ("vendor": an unknown entity type)
    run_context,    \* BusinessContext handed to discover(), or None
    target_count,   \* target_count handed to discover()
    ui,             \* run_discovery / the constructor: position, arguments, error
    run,            \* the activation of discover()
    score_cache,    \* RelevanceScorer._score_cache
    calls,          \* agent calls made so far, per operation
    faults,         \* per operation, whether its agent calls failed so far
    rel_cache,      \* _score_cache of the RelevanceScorer exercised on its own
    rel_call,       \* its last call: operation, arguments, agent calls made, outcome
    rel_obtained,   \* the scores obtained from the model since the last clear_cache
    ms_call,        \* the last MatchScorer / MatchScore call: arguments and outcome
    res_companies,  \* DiscoveryResult.companies of the result exercised on its own
    res_call        \* the last call on the result, the parser or two records

qbVars == <<qb_context, qb_filters, qb_base, qb_op, qb_out, qb_raised>>

ratVars == <<rat_company, rat_score, rat_entity, rat_outcome, rat_out>>

fltVars == <<flt_entity, flt_scores, flt_op, flt_passed, flt_out>>

runVars == <<entry, orch, run_context, target_count, ui, run, score_cache, calls, faults>>

relVars == <<rel_cache, rel_call, rel_obtained>>

msVars == <<ms_call>>

resVars == <<res_companies, res_call>>

notQB == <<ratVars, fltVars, runVars, relVars, msVars, resVars>>
notRat == <<qbVars, fltVars, runVars, relVars, msVars, resVars>>
notFlt == <<qbVars, ratVars, runVars, relVars, msVars, resVars>>
notRun == <<qbVars, ratVars, fltVars, relVars, msVars, resVars>>
notRel == <<qbVars, ratVars, fltVars, runVars, msVars, resVars>>
notMS == <<qbVars, ratVars, fltVars, runVars, relVars, resVars>>
notRes == <<qbVars, ratVars, fltVars, runVars, relVars, msVars>>

vars == <<qbVars, ratVars, fltVars, runVars, relVars, msVars, resVars>>
(***************************************************************************)
(* Bounds of the model                                                     *)
(***************************************************************************)
LongRepeat == 14     \* repetitions of an 11-character word in the long target market
FieldMax == 30       \* "short field" length used by the query-length statement

(***************************************************************************)
(* Python string primitives                                                *)
(***************************************************************************)
Min(a, b) == IF a <= b THEN a ELSE b
Max(a, b) == IF a >= b THEN a ELSE b

Take(s, n) == SubSeq(s, 1, Min(n, Len(s)))

Range(s) == {s[i] : i \in 1..Len(s)}

CharAt(s, i) == SubSeq(s, i, i)

IsSpace(c) == c \in {" ", "\t", "\n"}

\* sub in s
Contains(s, sub) ==
    \E i \in 1..(Len(s) - Len(sub) + 1) : SubSeq(s, i, i + Len(sub) - 1) = sub

\* s.strip()
Strip(s) ==
    LET keep == {i \in 1..Len(s) : ~IsSpace(CharAt(s, i))}
    IN IF keep = {} THEN ""
       ELSE SubSeq(s, CHOOSE i \in keep : \A j \in keep : i <= j,
                      CHOOSE i \in keep : \A j \in keep : i >= j)

LowerChar(c) ==
    CASE c = "A" -> "a" [] c = "B" -> "b" [] c = "C" -> "c" [] c = "D" -> "d"
      [] c = "E" -> "e" [] c = "F" -> "f" [] c = "G" -> "g" [] c = "H" -> "h"
      [] c = "I" -> "i" [] c = "J" -> "j" [] c = "K" -> "k" [] c = "L" -> "l"
      [] c = "M" -> "m" [] c = "N" -> "n" [] c = "O" -> "o" [] c = "P" -> "p"
      [] c = "Q" -> "q" [] c = "R" -> "r" [] c = "S" -> "s" [] c = "T" -> "t"
      [] c = "U" -> "u" [] c = "V" -> "v" [] c = "W" -> "w" [] c = "X" -> "x"
      [] c = "Y" -> "y" [] c = "Z" -> "z" [] OTHER -> c

\* s.lower(), halving the string so that the recursion stays shallow
RECURSIVE Lower(_)
Lower(s) ==
    IF Len(s) <= 1 THEN LowerChar(s)
    ELSE LET h == Len(s) \div 2
         IN Lower(SubSeq(s, 1, h)) \o Lower(SubSeq(s, h + 1, Len(s)))

\* s.split("-")[0]
BeforeDash(s) ==
    LET dashes == {i \in 1..Len(s) : CharAt(s, i) = "-"}
    IN IF dashes = {} THEN s
       ELSE SubSeq(s, 1, (CHOOSE i \in dashes : \A j \in dashes : i <= j) - 1)

\* sep.join(list)
RECURSIVE Join(_, _)
Join(list, sep) ==
    IF list = <<>> THEN ""
    ELSE IF Len(list) = 1 THEN list[1]
    ELSE list[1] \o sep \o Join(Tail(list), sep)

\* word repeated n times
RECURSIVE Rep(_, _)
Rep(word, n) == IF n = 0 THEN "" ELSE word \o Rep(word, n - 1)

(***************************************************************************)
(* Filter values: a filter is absent (None), a string or a list of         *)
(* strings.  t is the Python type, s the string, l the list.               *)
(***************************************************************************)
NoneV == [t |-> "none", s |-> "", l |-> <<>>]
StrV(x) == [t |-> "str", s |-> x, l |-> <<>>]
ListV(x) == [t |-> "list", s |-> "", l |-> x]

\* bool(v)
Truthy(v) == (v.t = "str" /\ v.s # "") \/ (v.t = "list" /\ v.l # <<>>)

QuoteAll(list) == [i \in 1..Len(list) |-> "'" \o list[i] \o "'"]

\* f"{v}": a list is interpolated as its repr
PyStr(v) ==
    IF v.t = "str" THEN v.s
    ELSE IF v.t = "list" THEN "[" \o Join(QuoteAll(v.l), ", ") \o "]"
    ELSE "None"

\* x or default, for strings
OrElse(x, default) == IF x # "" THEN x ELSE default

(***************************************************************************)
(* QueryBuilder (src/agent/query_builder.py).  Optional[str] geography:    *)
(* None is written "", every use of it in the code is guarded by its       *)
(* truthiness, under which None and "" agree.                              *)
(***************************************************************************)
MAX_QUERIES == 5
MIN_QUERIES == 3
TOP_ITEMS == 2

\* _build_query(base, geography)
build_query(base, geography) ==
    IF base = "" THEN ""
    ELSE LET query == Strip(base)
         IN IF geography # "" /\ ~Contains(Lower(query), "in ")
            THEN query \o " in " \o geography
            ELSE query

\* extract_geography without the two-region cap
extract_geography_uncapped(context, filters) ==
    IF Truthy(filters.geography)
    THEN IF filters.geography.t = "list"
         THEN Join(filters.geography.l, ", ")
         ELSE filters.geography.s
    ELSE IF context.geography # <<>>
         THEN Join(context.geography, ", ")
         ELSE ""

\* _extract_geography(context, filters)
extract_geography(context, filters) ==
    IF Truthy(filters.geography)
    THEN IF filters.geography.t = "list"
         THEN Join(Take(filters.geography.l, TOP_ITEMS), ", ")
         ELSE filters.geography.s
    ELSE IF context.geography # <<>>
         THEN Join(Take(context.geography, TOP_ITEMS), ", ")
         ELSE ""

\* if query and query not in seen_queries: queries.append(query); seen_queries.add(query)
AddQuery(st, query) ==
    IF query # "" /\ query \notin st.seen
    THEN [queries |-> Append(st.queries, query), seen |-> st.seen \cup {query}]
    ELSE st

RECURSIVE AddQueries(_, _)
AddQueries(st, list) ==
    IF list = <<>> THEN st ELSE AddQueries(AddQuery(st, list[1]), Tail(list))

\* [filter_industry] if isinstance(filter_industry, str) else filter_industry
AsList(v) == IF v.t = "str" THEN <<v.s>> ELSE v.l

\* the generic query appended when a fallback is empty or already present
CustomerCatchAll(geography) ==
    IF geography # "" THEN "businesses in " \o geography ELSE "companies"

\* while len(queries) < 3: ... (build_customer_queries, lines 139-157)
RECURSIVE CustomerFallbacks(_, _, _, _)
CustomerFallbacks(st, industry, target_market, geography) ==
    IF Len(st.queries) >= MIN_QUERIES THEN st
    ELSE LET n == Len(st.queries)
             fallback ==
                 IF n = 0
                 THEN build_query(OrElse(target_market, OrElse(industry, "businesses")),
                                  geography)
                 ELSE IF n = 1
                 THEN OrElse(industry, "companies") \o " looking for growth"
                 ELSE "potential " \o OrElse(industry, "business") \o " customers"
         IN IF fallback # "" /\ fallback \notin st.seen
            THEN CustomerFallbacks(AddQuery(st, fallback), industry, target_market, geography)
            ELSE [st EXCEPT !.queries = Append(@, CustomerCatchAll(geography))]

build_customer_queries(context, filters) ==
    LET industry == OrElse(context.industry, "businesses")
        products == context.products_services
        target_market == context.target_market
        geography == extract_geography(context, filters)
        s0 == [queries |-> <<>>, seen |-> {}]
        \* Strategy 1: target market
        s1 == IF target_market # ""
              THEN AddQuery(s0, build_query(target_market, geography))
              ELSE s0
        \* Strategy 2: need for the first two products
        top == Take(products, TOP_ITEMS)
        s2 == AddQueries(s1,
                [i \in 1..Len(top) |->
                    build_query(OrElse(target_market, "companies") \o " needing "
                                    \o Lower(top[i]), geography)])
        \* Strategy 3: industry (filter industries first)
        s3 == IF industry = "" THEN s2
              ELSE IF Truthy(filters.industry)
              THEN LET inds == Take(AsList(filters.industry), TOP_ITEMS)
                   IN AddQueries(s2,
                        [i \in 1..Len(inds) |->
                            build_query(inds[i] \o " companies", geography)])
              ELSE AddQuery(s2,
                     build_query(Strip(BeforeDash(industry)) \o " companies", geography))
        \* Strategy 4: geography + industry (no emptiness test in the code)
        q4 == Strip(BeforeDash(industry)) \o " businesses in " \o geography
        s4 == IF geography # "" /\ industry # "" /\ q4 \notin s3.seen
              THEN [queries |-> Append(s3.queries, q4), seen |-> s3.seen \cup {q4}]
              ELSE s3
        \* Strategy 5: size filter
        s5 == IF Truthy(filters.size) /\ target_market # ""
              THEN AddQuery(s4,
                     build_query(target_market \o " " \o PyStr(filters.size), geography))
              ELSE s4
        s6 == CustomerFallbacks(s5, industry, target_market, geography)
    IN Take(s6.queries, MAX_QUERIES)

\* the generic query appended when a partner fallback is empty or already present
PartnerCatchAll(geography) ==
    IF geography # "" THEN "partnership opportunities in " \o geography
    ELSE "business partners"

\* while len(queries) < 3: ... (build_partner_queries, lines 262-280)
RECURSIVE PartnerFallbacks(_, _, _)
PartnerFallbacks(st, industry, geography) ==
    IF Len(st.queries) >= MIN_QUERIES THEN st
    ELSE LET n == Len(st.queries)
             fallback ==
                 IF n = 0
                 THEN build_query(
                        (IF industry # "" THEN Strip(BeforeDash(industry)) ELSE "business")
                            \o " partners", geography)
                 ELSE IF n = 1
                 THEN "strategic " \o OrElse(industry, "business") \o " partnerships"
                 ELSE "complementary " \o OrElse(industry, "business") \o " partners"
         IN IF fallback # "" /\ fallback \notin st.seen
            THEN PartnerFallbacks(AddQuery(st, fallback), industry, geography)
            ELSE [st EXCEPT !.queries = Append(@, PartnerCatchAll(geography))]

build_partner_queries(context, filters) ==
    LET industry == OrElse(context.industry, "businesses")
        products == context.products_services
        geography == extract_geography(context, filters)
        s0 == [queries |-> <<>>, seen |-> {}]
        \* Strategy 1: partnership with the industry
        s1 == IF industry # ""
              THEN AddQuery(s0,
                     build_query("companies partnering with " \o Strip(BeforeDash(industry))
                                     \o " businesses", geography))
              ELSE s0
        \* Strategy 2: complementary products (first two)
        top == Take(products, TOP_ITEMS)
        s2 == AddQueries(s1,
                [i \in 1..Len(top) |->
                    build_query("companies integrating with " \o Lower(top[i]), geography)])
        \* Strategy 3: technology partnerships
        s3 == IF Contains(Lower(industry), "saas") \/ Contains(Lower(industry), "software")
              THEN AddQuery(s2, build_query("technology integration partners", geography))
              ELSE s2
        \* Strategy 4: partnership_type filter
        s4 == IF Truthy(filters.partnership_type)
              THEN AddQuery(s3,
                     build_query(PyStr(filters.partnership_type)
                                     \o " partnership opportunities", geography))
              ELSE s3
        \* Strategy 5: filter industries
        s5 == IF Truthy(filters.industry)
              THEN LET inds == Take(AsList(filters.industry), TOP_ITEMS)
                   IN AddQueries(s4,
                        [i \in 1..Len(inds) |->
                            build_query(inds[i] \o " strategic partners", geography)])
              ELSE s4
        s6 == PartnerFallbacks(s5, industry, geography)
    IN Take(s6.queries, MAX_QUERIES)

\* not filters: the dict is empty
NoFilters(filters) ==
    /\ filters.geography.t = "none" /\ filters.industry.t = "none"
    /\ filters.size.t = "none" /\ filters.partnership_type.t = "none"

\* a refinement that leaves the base query as it is
refine_query_unrefined(base_query, filters) == [raised |-> "", value |-> base_query]

\* refine_query(base_query, filters): [raised |-> exception type or "", value |-> str]
refine_query(base_query, filters) ==
    IF NoFilters(filters) THEN [raised |-> "", value |-> base_query]
    ELSE LET geography == filters.geography
             geo_str == IF geography.t = "str" THEN geography.s
                        ELSE Join(Take(geography.l, TOP_ITEMS), ", ")
             r1 == IF Truthy(geography) /\ ~Contains(Lower(base_query), "in ")
                   THEN base_query \o " in " \o geo_str
                   ELSE base_query
             industry == filters.industry
         IN IF ~Truthy(industry) THEN [raised |-> "", value |-> r1]
            \* industry.lower() is evaluated before the isinstance test: a list has no lower()
            ELSE IF industry.t = "list" THEN [raised |-> "AttributeError", value |-> ""]
            ELSE IF ~Contains(Lower(r1), Lower(industry.s))
                 THEN [raised |-> "", value |-> industry.s \o " " \o r1]
                 ELSE [raised |-> "", value |-> r1]

(***************************************************************************)
(* Numbers.  A score on the 0-100 scale is kept as an integer number of    *)
(* thousandths of a point, a relevance on the 0.0-1.0 scale as an integer  *)
(* number of thousandths.                                                  *)
(***************************************************************************)
ScoreUnit == 1000

Pts(n) == n * ScoreUnit

\* round(m / unit), ties to the even neighbour, as the format specs do
RoundHalfEven(m, unit) ==
    LET q == m \div unit
        r == m % unit
    IN IF 2 * r > unit \/ (2 * r = unit /\ q % 2 = 1) THEN q + 1 ELSE q

Digit(d) == CharAt("0123456789", d + 1)

RECURSIVE IntStr(_)
IntStr(n) == IF n < 10 THEN Digit(n) ELSE IntStr(n \div 10) \o Digit(n % 10)

\* f"{x:.0f}" and f"{x:.1f}" of a score
Fmt0(m) == IntStr(RoundHalfEven(m, ScoreUnit))
Fmt1(m) ==
    LET t == RoundHalfEven(m, ScoreUnit \div 10)
    IN IntStr(t \div 10) \o "." \o IntStr(t % 10)

\* Optional[...] values
None == <<>>
Some(x) == <<x>>

(***************************************************************************)
(* JSON values, as json.loads returns them.  j is the JSON type; a dict is *)
(* a record (a function from its keys), a list a sequence of JSON values.  *)
(***************************************************************************)
JNull == [j |-> "null", s |-> "", n |-> 0, l |-> <<>>, d |-> <<>>]
JStr(x) == [j |-> "str", s |-> x, n |-> 0, l |-> <<>>, d |-> <<>>]
JNum(x) == [j |-> "num", s |-> "", n |-> x, l |-> <<>>, d |-> <<>>]
JList(x) == [j |-> "list", s |-> "", n |-> 0, l |-> x, d |-> <<>>]
JDict(x) == [j |-> "dict", s |-> "", n |-> 0, l |-> <<>>, d |-> x]

\* bool(v) of a JSON value
JTruthy(v) ==
    CASE v.j = "null" -> FALSE
      [] v.j = "str" -> v.s # ""
      [] v.j = "num" -> v.n # 0
      [] v.j = "list" -> v.l # <<>>
      [] OTHER -> DOMAIN v.d # {}

\* data.get(key, default)
JGet(data, key, default) == IF key \in DOMAIN data THEN data[key] ELSE default

\* the strings of a JSON list of strings
JStrings(list) == [i \in 1..Len(list) |-> list[i].s]

\* s.index(c) and s.rindex(c), 1-based; the callers test c in s first
IndexOf(s, c) == CHOOSE i \in 1..Len(s) : CharAt(s, i) = c /\ \A k \in 1..(i - 1) : CharAt(s, k) # c
RIndexOf(s, c) == CHOOSE i \in 1..Len(s) : CharAt(s, i) = c /\ \A k \in (i + 1)..Len(s) : CharAt(s, k) # c

\* response[response.index(open) : response.rindex(close) + 1]
Span(response, open, close) == SubSeq(response, IndexOf(response, open), RIndexOf(response, close))

HasSpan(response, open, close) == Contains(response, open) /\ Contains(response, close)

(***************************************************************************)
(* An outcome of agent._generate_content: it raises, or it returns a text. *)
(***************************************************************************)
Raises(message) == [raised |-> TRUE, text |-> "", msg |-> message]
Returns(response) == [raised |-> FALSE, text |-> response, msg |-> ""]

AgentDown == Raises("API quota exceeded")

(***************************************************************************)
(* models/discovery_results.py and models/business_context.py              *)
(***************************************************************************)
\* CompanyInfo(...): match_score and rationale start as None
CompanyInfo(name, website, locations, size_estimate, description, sources) ==
    [name |-> name, website |-> website, locations |-> locations,
     size_estimate |-> size_estimate, description |-> description,
     sources |-> sources, match_score |-> None, rationale |-> None]

\* BusinessContext(...), the fields the modelled code reads
BusinessContext(industry, products_services, target_market, geography) ==
    [industry |-> industry, products_services |-> products_services,
     target_market |-> target_market, geography |-> geography]

(***************************************************************************)
(* The JSON documents that occur in the modelled agent responses, and      *)
(* json.loads on them.  Numbers are in thousandths.  Every other text of   *)
(* the model is not valid JSON.                                            *)
(***************************************************************************)
\* rationale prompt
RatStrongJson == "{\"summary\": \"Great fit\", \"key_strengths\": [\"Same market\", \"Right size\"], \"fit_explanation\": \"Scores well\", \"potential_concerns\": [], \"recommendation\": \"Strong Match\"}"
RatGoodJson == "{\"summary\": \"Solid fit\", \"recommendation\": \"Good Match\"}"
RatFairJson == "{\"summary\": \"Weak fit\", \"potential_concerns\": [\"Small team\"], \"recommendation\": \"Fair Match\"}"
RatOtherJson == "{\"summary\": \"Superb\", \"recommendation\": \"Excellent Match\"}"
RatNullJson == "{\"summary\": \"No verdict\", \"recommendation\": null}"
RatBareJson == "{\"summary\": \"No verdict given\"}"

\* relevance prompt
RelHighJson == "{\"score\": 0.85, \"reasoning\": \"In the target market\"}"
RelMidJson == "{\"score\": 0.45, \"reasoning\": \"Some overlap\"}"
RelLowJson == "{\"score\": 0.1, \"reasoning\": \"Unrelated business\"}"
RelNullJson == "{\"score\": null}"
RelNoScoreJson == "{\"reasoning\": \"Likely a 0.7 fit\"}"
RelOverJson == "{\"score\": 1.5}"
RelNegativeJson == "{\"score\": -0.2}"
RelWordJson == "{\"score\": \"high\"}"
RelTextJson == "{\"score\": \"0.8\"}"
RelListJson == "{\"score\": [0.9]}"

\* web search prompt
SearchTwoJson == "[{\"url\": \"https://acme.com\", \"title\": \"Acme Corp\", \"snippet\": \"CRM software for SaaS teams\"}, {\"url\": \"https://beta.io\", \"title\": \"Beta Labs\", \"snippet\": \"Data pipelines\"}]"
SearchOneJson == "[{\"url\": \"https://acme.com\", \"title\": \"ACME CORP\", \"snippet\": \"About Acme\"}]"
SearchBlankJson == "[{\"title\": \"Untitled\", \"snippet\": \"No link\"}, {\"url\": \"https://gamma.dev\", \"title\": \"\", \"snippet\": \"\"}]"
SearchNullTitleJson == "[{\"url\": \"https://delta.org\", \"title\": null, \"snippet\": \"Logistics\"}]"

\* company extraction prompt
ParseAcmeJson == "{\"name\": \"Acme Corp\", \"website\": \"https://acme.com\", \"locations\": [\"Berlin\"], \"size_estimate\": \"Medium\", \"description\": \"CRM software for SaaS teams\"}"
ParseAcmeUpperJson == "{\"name\": \"ACME CORP\", \"website\": \"HTTPS://ACME.COM\", \"size_estimate\": \"Large\"}"
ParseBetaJson == "{\"name\": \"Beta Labs\", \"website\": \"https://beta.io\", \"locations\": [\"Munich, Germany\"], \"description\": \"Data pipelines for retail\"}"
ParseNoNameJson == "{\"description\": \"A marketing agency\"}"
ParseNullNameJson == "{\"name\": null, \"website\": \"https://delta.org\"}"
ParseEmptyJson == "{}"

\* enrichment prompt
ParseNestedJson == "{\"name\": \"Delta Works\", \"website\": \"https://delta.org\", \"locations\": [{\"city\": \"Berlin\", \"country\": \"Germany\"}]}"
EnrichFullJson == "{\"description\": \"Builds email marketing software\", \"locations\": [\"Berlin\", \"Paris\"], \"size_estimate\": \"Large\"}"
EnrichSizeJson == "{\"description\": \"\", \"locations\": [], \"size_estimate\": \"250 employees\"}"

SearchHit(url, title, snippet) ==
    JDict([url |-> JStr(url), title |-> title, snippet |-> JStr(snippet)])

JsonLoads(text) ==
    CASE text = RatStrongJson ->
           [ok |-> TRUE, value |-> JDict(
               [summary |-> JStr("Great fit"),
                key_strengths |-> JList(<<JStr("Same market"), JStr("Right size")>>),
                fit_explanation |-> JStr("Scores well"),
                potential_concerns |-> JList(<<>>),
                recommendation |-> JStr("Strong Match")])]
      [] text = RatGoodJson ->
           [ok |-> TRUE, value |-> JDict(
               [summary |-> JStr("Solid fit"), recommendation |-> JStr("Good Match")])]
      [] text = RatFairJson ->
           [ok |-> TRUE, value |-> JDict(
               [summary |-> JStr("Weak fit"),
                potential_concerns |-> JList(<<JStr("Small team")>>),
                recommendation |-> JStr("Fair Match")])]
      [] text = RatOtherJson ->
           [ok |-> TRUE, value |-> JDict(
               [summary |-> JStr("Superb"), recommendation |-> JStr("Excellent Match")])]
      [] text = RatNullJson ->
           [ok |-> TRUE, value |-> JDict(
               [summary |-> JStr("No verdict"), recommendation |-> JNull])]
      [] text = RatBareJson ->
           [ok |-> TRUE, value |-> JDict([summary |-> JStr("No verdict given")])]
      [] text = RelHighJson ->
           [ok |-> TRUE, value |-> JDict(
               [score |-> JNum(850), reasoning |-> JStr("In the target market")])]
      [] text = RelMidJson ->
           [ok |-> TRUE, value |-> JDict(
               [score |-> JNum(450), reasoning |-> JStr("Some overlap")])]
      [] text = RelLowJson ->
           [ok |-> TRUE, value |-> JDict(
               [score |-> JNum(100), reasoning |-> JStr("Unrelated business")])]
      [] text = RelNullJson -> [ok |-> TRUE, value |-> JDict([score |-> JNull])]
      [] text = RelOverJson -> [ok |-> TRUE, value |-> JDict([score |-> JNum(1500)])]
      [] text = RelNegativeJson -> [ok |-> TRUE, value |-> JDict([score |-> JNum(-200)])]
      [] text = RelWordJson -> [ok |-> TRUE, value |-> JDict([score |-> JStr("high")])]
      [] text = RelTextJson -> [ok |-> TRUE, value |-> JDict([score |-> JStr("0.8")])]
      [] text = RelListJson ->
           [ok |-> TRUE, value |-> JDict([score |-> JList(<<JNum(900)>>)])]
      [] text = RelNoScoreJson ->
           [ok |-> TRUE, value |-> JDict([reasoning |-> JStr("Likely a 0.7 fit")])]
      [] text = SearchTwoJson ->
           [ok |-> TRUE, value |-> JList(
               <<SearchHit("https://acme.com", JStr("Acme Corp"), "CRM software for SaaS teams"),
                 SearchHit("https://beta.io", JStr("Beta Labs"), "Data pipelines")>>)]
      [] text = SearchOneJson ->
           [ok |-> TRUE, value |-> JList(
               <<SearchHit("https://acme.com", JStr("ACME CORP"), "About Acme")>>)]
      [] text = SearchBlankJson ->
           [ok |-> TRUE, value |-> JList(
               <<JDict([title |-> JStr("Untitled"), snippet |-> JStr("No link")]),
                 SearchHit("https://gamma.dev", JStr(""), "")>>)]
      [] text = SearchNullTitleJson ->
           [ok |-> TRUE, value |-> JList(
               <<SearchHit("https://delta.org", JNull, "Logistics")>>)]
      [] text = ParseAcmeJson ->
           [ok |-> TRUE, value |-> JDict(
               [name |-> JStr("Acme Corp"), website |-> JStr("https://acme.com"),
                locations |-> JList(<<JStr("Berlin")>>), size_estimate |-> JStr("Medium"),
                description |-> JStr("CRM software for SaaS teams")])]
      [] text = ParseAcmeUpperJson ->
           [ok |-> TRUE, value |-> JDict(
               [name |-> JStr("ACME CORP"), website |-> JStr("HTTPS://ACME.COM"),
                size_estimate |-> JStr("Large")])]
      [] text = ParseBetaJson ->
           [ok |-> TRUE, value |-> JDict(
               [name |-> JStr("Beta Labs"), website |-> JStr("https://beta.io"),
                locations |-> JList(<<JStr("Munich, Germany")>>),
                description |-> JStr("Data pipelines for retail")])]
      [] text = ParseNoNameJson ->
           [ok |-> TRUE, value |-> JDict([description |-> JStr("A marketing agency")])]
      [] text = ParseNullNameJson ->
           [ok |-> TRUE, value |-> JDict(
               [name |-> JNull, website |-> JStr("https://delta.org")])]
      [] text = ParseEmptyJson -> [ok |-> TRUE, value |-> JDict(<<>>)]
      [] text = ParseNestedJson ->
           [ok |-> TRUE, value |-> JDict(
               [name |-> JStr("Delta Works"), website |-> JStr("https://delta.org"),
                locations |-> JList(<<JDict([city |-> JStr("Berlin"),
                                             country |-> JStr("Germany")])>>)])]
      [] text = EnrichFullJson ->
           [ok |-> TRUE, value |-> JDict(
               [description |-> JStr("Builds email marketing software"),
                locations |-> JList(<<JStr("Berlin"), JStr("Paris")>>),
                size_estimate |-> JStr("Large")])]
      [] text = EnrichSizeJson ->
           [ok |-> TRUE, value |-> JDict(
               [description |-> JStr(""), locations |-> JList(<<>>),
                size_estimate |-> JStr("250 employees")])]
      [] OTHER -> [ok |-> FALSE, value |-> JNull]

(***************************************************************************)
(* models/match_score.py and models/rationale.py                           *)
(***************************************************************************)
MAX_SCORE == 100

Clamp(x) == Max(0, Min(Pts(MAX_SCORE), x))

ConfidenceLevels == {"High", "Medium", "Low"}

\* MatchScore(...) with __post_init__; the breakdown is always passed
MatchScore(overall, relevance, geographic, size, strategic, conf) ==
    [overall_score |-> Clamp(overall),
     relevance_score |-> Clamp(relevance),
     geographic_fit |-> Clamp(geographic),
     size_appropriateness |-> Clamp(size),
     strategic_alignment |-> Clamp(strategic),
     score_breakdown |-> [relevance |-> relevance, geographic |-> geographic,
                          size |-> size, strategic |-> strategic],
     confidence |-> IF conf \in ConfidenceLevels THEN conf ELSE "Low"]

\* a constructor that stores what it is given
post_init_unvalidated(overall, relevance, geographic, size, strategic, score_breakdown, conf) ==
    [overall_score |-> overall, relevance_score |-> relevance,
     geographic_fit |-> geographic, size_appropriateness |-> size,
     strategic_alignment |-> strategic, score_breakdown |-> score_breakdown,
     confidence |-> conf]

\* MatchScore(...) with __post_init__, for any arguments; score_breakdown is a
\* function from keys to values, the empty dict the empty function
post_init(overall, relevance, geographic, size, strategic, score_breakdown, conf) ==
    [overall_score |-> Clamp(overall),
     relevance_score |-> Clamp(relevance),
     geographic_fit |-> Clamp(geographic),
     size_appropriateness |-> Clamp(size),
     strategic_alignment |-> Clamp(strategic),
     score_breakdown |-> IF DOMAIN score_breakdown = {}
                         THEN [relevance |-> Clamp(relevance),
                               geographic |-> Clamp(geographic),
                               size |-> Clamp(size), strategic |-> Clamp(strategic)]
                         ELSE score_breakdown,
     confidence |-> IF conf \in ConfidenceLevels THEN conf ELSE "Low"]

Recommendations == {"Strong Match", "Good Match", "Fair Match"}

\* Rationale(...) with __post_init__; recommendation is a JSON value
Rationale(summary, key_strengths, fit_explanation, potential_concerns, recommendation) ==
    [summary |-> summary,
     key_strengths |-> key_strengths,
     fit_explanation |-> fit_explanation,
     potential_concerns |-> potential_concerns,
     recommendation |-> IF recommendation.j = "str" /\ recommendation.s \in Recommendations
                        THEN recommendation.s ELSE "Fair Match"]

\* Rationale.from_dict
RationaleFromDict(data) ==
    Rationale(JGet(data, "summary", JStr("")).s,
              JStrings(JGet(data, "key_strengths", JList(<<>>)).l),
              JGet(data, "fit_explanation", JStr("")).s,
              JStrings(JGet(data, "potential_concerns", JList(<<>>)).l),
              JGet(data, "recommendation", JStr("Fair Match")))

(***************************************************************************)
(* scoring/rationale_generator.py                                          *)
(***************************************************************************)
STRONG_MATCH_MIN == 80
GOOD_MATCH_MIN == 60
STRENGTH_MIN == 70

determine_recommendation(overall_score) ==
    IF overall_score >= Pts(STRONG_MATCH_MIN) THEN "Strong Match"
    ELSE IF overall_score >= Pts(GOOD_MATCH_MIN) THEN "Good Match"
    ELSE "Fair Match"

\* a parser that keeps the recommendation written in the response
parse_rationale_response_as_written(response_text, overall_score) ==
    IF ~HasSpan(response_text, "{", "}")
    THEN [ok |-> FALSE, rationale |-> None]
    ELSE LET loaded == JsonLoads(Span(response_text, "{", "}"))
         IN IF ~loaded.ok
            THEN [ok |-> FALSE, rationale |-> None]
            ELSE [ok |-> TRUE, rationale |-> Some(RationaleFromDict(loaded.value.d))]

\* _parse_rationale_response: ok = FALSE stands for the ValueError it raises
parse_rationale_response(response_text, overall_score) ==
    IF ~HasSpan(response_text, "{", "}")
    THEN [ok |-> FALSE, rationale |-> None]
    ELSE LET loaded == JsonLoads(Span(response_text, "{", "}"))
         IN IF ~loaded.ok
            THEN [ok |-> FALSE, rationale |-> None]
            ELSE [ok |-> TRUE,
                  rationale |-> Some([RationaleFromDict(loaded.value.d) EXCEPT
                      !.recommendation = determine_recommendation(overall_score)])]

\* strengths that list only the components above 70
FallbackStrengthsAbove(score) ==
    LET s1 == IF score.relevance_score > Pts(STRENGTH_MIN)
              THEN <<"High relevance score (" \o Fmt0(score.relevance_score)
                     \o "/100) indicates strong business fit">>
              ELSE <<>>
        s2 == IF score.geographic_fit > Pts(STRENGTH_MIN)
              THEN <<"Good geographic alignment (" \o Fmt0(score.geographic_fit) \o "/100)">>
              ELSE <<>>
        s3 == IF score.size_appropriateness > Pts(STRENGTH_MIN)
              THEN <<"Appropriate company size (" \o Fmt0(score.size_appropriateness) \o "/100)">>
              ELSE <<>>
        s4 == IF score.strategic_alignment > Pts(STRENGTH_MIN)
              THEN <<"Strong strategic fit (" \o Fmt0(score.strategic_alignment) \o "/100)">>
              ELSE <<>>
        all == s1 \o s2 \o s3 \o s4
    IN IF all = <<>>
       THEN <<"Overall match score of " \o Fmt0(score.overall_score) \o "/100">>
       ELSE all

\* the key_strengths lines of the fallback rationale
FallbackStrengths(score) ==
    LET s1 == IF score.relevance_score >= Pts(STRENGTH_MIN)
              THEN <<"High relevance score (" \o Fmt0(score.relevance_score)
                     \o "/100) indicates strong business fit">>
              ELSE <<>>
        s2 == IF score.geographic_fit >= Pts(STRENGTH_MIN)
              THEN <<"Good geographic alignment (" \o Fmt0(score.geographic_fit) \o "/100)">>
              ELSE <<>>
        s3 == IF score.size_appropriateness >= Pts(STRENGTH_MIN)
              THEN <<"Appropriate company size (" \o Fmt0(score.size_appropriateness) \o "/100)">>
              ELSE <<>>
        s4 == IF score.strategic_alignment >= Pts(STRENGTH_MIN)
              THEN <<"Strong strategic fit (" \o Fmt0(score.strategic_alignment) \o "/100)">>
              ELSE <<>>
        all == s1 \o s2 \o s3 \o s4
    IN IF all = <<>>
       THEN <<"Overall match score of " \o Fmt0(score.overall_score) \o "/100">>
       ELSE all

\* _create_fallback_rationale
create_fallback_rationale(company, score, entity_type) ==
    LET recommendation == determine_recommendation(score.overall_score)
    IN Rationale(
        IF Lower(entity_type) = "partner"
        THEN "Partnership opportunity with " \o company.name \o " based on score analysis"
        ELSE "Customer prospect " \o company.name \o " identified through scoring",
        FallbackStrengths(score),
        "With an overall score of " \o Fmt1(score.overall_score) \o "/100, this "
            \o entity_type \o " shows " \o Lower(recommendation) \o " potential. "
            \o "Score confidence: " \o score.confidence \o ".",
        IF score.confidence = "Low"
        THEN <<"Limited data available for comprehensive assessment">>
        ELSE <<>>,
        JStr(recommendation))

\* generate_rationale, given the outcome of its one agent call
generate_rationale(company, score, entity_type, outcome) ==
    IF outcome.raised
    THEN create_fallback_rationale(company, score, entity_type)
    ELSE LET parsed == parse_rationale_response(outcome.text, score.overall_score)
         IN IF parsed.ok THEN parsed.rationale[1]
            ELSE create_fallback_rationale(company, score, entity_type)
(***************************************************************************)
(* Text scanning used by the score parsers (the re patterns) and by        *)
(* difflib.SequenceMatcher                                                 *)
(***************************************************************************)
\* the element of a one-element set: The({F(x) : x \in {e}}) is F(e), with
\* e evaluated once
The(S) == CHOOSE x \in S : TRUE

IsDigit(c) == c # "" /\ Contains("0123456789", c)

\* \w of the re module, for ASCII text
IsWordChar(c) ==
    c # "" /\ Contains("abcdefghijklmnopqrstuvwxyzABCDEFGHIJKLMNOPQRSTUVWXYZ0123456789_", c)

\* the character at position i, "" outside the string
At(s, i) == IF i >= 1 /\ i <= Len(s) THEN CharAt(s, i) ELSE ""

\* \b between positions i - 1 and i
Boundary(s, i) == IsWordChar(At(s, i - 1)) # IsWordChar(At(s, i))

\* last index of the run of digits that starts at i (i - 1 if there is none)
RECURSIVE DigitsEnd(_, _)
DigitsEnd(s, i) == IF IsDigit(At(s, i)) THEN DigitsEnd(s, i + 1) ELSE i - 1

DigitVal(c) == CHOOSE d \in 0..9 : Digit(d) = c

\* value of a run of digits, capped so that long runs stay in range
BigNumber == 1000000
RECURSIVE DigitsVal(_)
DigitsVal(ds) ==
    IF ds = "" THEN 0
    ELSE Min(BigNumber, 10 * DigitsVal(SubSeq(ds, 1, Len(ds) - 1)) + DigitVal(At(ds, Len(ds))))

\* float("<int>.<frac>") in thousandths, digits beyond the third dropped
DecimalVal(int, frac) ==
    LET f3 == Take(frac \o "000", 3)
    IN Min(BigNumber, DigitsVal(int)) * ScoreUnit + DigitsVal(f3)

\* s.split(): the maximal runs of non-space characters, in order
Words(s) ==
    LET starts == {i \in 1..Len(s) : ~IsSpace(At(s, i)) /\ (i = 1 \/ IsSpace(At(s, i - 1)))}
        EndOf(i) == CHOOSE e \in i..Len(s) :
                        /\ \A k \in i..e : ~IsSpace(At(s, k))
                        /\ (e = Len(s) \/ IsSpace(At(s, e + 1)))
        Nth(n) == CHOOSE i \in starts : Cardinality({k \in starts : k < i}) = n - 1
    IN [n \in 1..Cardinality(starts) |-> SubSeq(s, Nth(n), EndOf(Nth(n)))]

\* s.split("\n")
Lines(s) ==
    LET breaks == {i \in 1..Len(s) : At(s, i) = "\n"}
        Nth(n) == CHOOSE i \in breaks : Cardinality({k \in breaks : k < i}) = n - 1
        From(n) == IF n = 1 THEN 1 ELSE Nth(n - 1) + 1
        To(n) == IF n = Cardinality(breaks) + 1 THEN Len(s) ELSE Nth(n) - 1
    IN [n \in 1..(Cardinality(breaks) + 1) |-> SubSeq(s, From(n), To(n))]

MaxOf(S) == CHOOSE x \in S : \A y \in S : x >= y

MinOf(S) == CHOOSE x \in S : \A y \in S : x <= y

StartsWith(s, prefix) == Len(s) >= Len(prefix) /\ SubSeq(s, 1, Len(prefix)) = prefix

(***************************************************************************)
(* difflib.SequenceMatcher(None, a, b).ratio() for texts shorter than 200  *)
(* characters (no element is junk, the popularity heuristic is off)        *)
(***************************************************************************)
RECURSIVE CommonPrefixLen(_, _, _, _)
CommonPrefixLen(a, i, b, j) ==
    IF i > Len(a) \/ j > Len(b) \/ CharAt(a, i) # CharAt(b, j) THEN 0
    ELSE 1 + CommonPrefixLen(a, i + 1, b, j + 1)

\* find_longest_match: <<i, j, k>>, the longest block, the one starting
\* earliest in a and, among those, earliest in b; k = 0 if there is none
LongestMatch(a, b) ==
    LET starts == {p \in (1..Len(a)) \X (1..Len(b)) :
                      /\ CharAt(a, p[1]) = CharAt(b, p[2])
                      /\ At(a, p[1] - 1) = "" \/ At(a, p[1] - 1) # At(b, p[2] - 1)}
    IN IF starts = {} THEN <<0, 0, 0>>
       ELSE LET ext == [p \in starts |-> CommonPrefixLen(a, p[1], b, p[2])]
                k == MaxOf({ext[p] : p \in starts})
                longest == {p \in starts : ext[p] = k}
                i == MinOf({p[1] : p \in longest})
                j == MinOf({p[2] : p \in {q \in longest : q[1] = i}})
            IN <<i, j, k>>

\* sum of the sizes of get_matching_blocks()
RECURSIVE MatchedChars(_, _)
MatchedChars(a, b) ==
    IF a = "" \/ b = "" THEN 0
    ELSE LET m == LongestMatch(a, b)
         IN IF m[3] = 0 THEN 0
            ELSE m[3]
                 + MatchedChars(SubSeq(a, 1, m[1] - 1), SubSeq(b, 1, m[2] - 1))
                 + MatchedChars(SubSeq(a, m[1] + m[3], Len(a)), SubSeq(b, m[2] + m[3], Len(b)))

\* ratio() * 100 as a score
SimilarityScore(a, b) ==
    IF Len(a) + Len(b) = 0 THEN Pts(100)
    ELSE (2 * MatchedChars(a, b) * Pts(100)) \div (Len(a) + Len(b))

(***************************************************************************)
(* discovery/relevance_scorer.py.  A relevance (0.0-1.0) is an integer     *)
(* number of thousandths.                                                  *)
(***************************************************************************)
RELEVANCE_THRESHOLD == 300
NEUTRAL_RELEVANCE == 500
MAX_RELEVANCE == 1000

\* end of the match of ([0-1]?\.\d+|0|1)\b that starts at i, 0 if there is none
ScoreMatchEnd(s, i) ==
    LET lead == IF At(s, i) \in {"0", "1"} /\ At(s, i + 1) = "." THEN i + 1
                ELSE IF At(s, i) = "." THEN i
                ELSE 0
        e == IF lead = 0 THEN 0 ELSE DigitsEnd(s, lead + 1)
    IN IF lead # 0 /\ e > lead /\ Boundary(s, e + 1) THEN e
       ELSE IF At(s, i) \in {"0", "1"} /\ Boundary(s, i + 1) THEN i
       ELSE 0

\* value of the matched text s[i..e]
ScoreMatchVal(s, i, e) ==
    LET dot == IF At(s, i) = "." THEN i ELSE IF At(s, i + 1) = "." /\ e > i THEN i + 1 ELSE 0
    IN IF dot = 0 THEN DecimalVal(SubSeq(s, i, e), "")
       ELSE DecimalVal(SubSeq(s, i, dot - 1), SubSeq(s, dot + 1, e))

\* first match of \b([0-1]?\.\d+|0|1)\b from position i on whose value is in [0, 1]
RECURSIVE FirstScoreInRange(_, _)
FirstScoreInRange(s, i) ==
    IF i > Len(s) THEN [found |-> FALSE, value |-> 0]
    ELSE LET e == IF Boundary(s, i) THEN ScoreMatchEnd(s, i) ELSE 0
         IN IF e = 0 THEN FirstScoreInRange(s, i + 1)
            ELSE IF ScoreMatchVal(s, i, e) <= MAX_RELEVANCE
                 THEN [found |-> TRUE, value |-> ScoreMatchVal(s, i, e)]
                 ELSE FirstScoreInRange(s, e + 1)

\* float(data["score"]): a number, a numeric string; None and lists raise
\* TypeError, other strings ValueError
FloatOf(v) ==
    CASE v.j = "num" -> [raised |-> "", value |-> v.n]
      [] v.j = "str" ->
           LET e == DigitsEnd(v.s, 1)
               f == IF At(v.s, e + 1) = "." THEN DigitsEnd(v.s, e + 2) ELSE e
           IN IF v.s # "" /\ v.s # "." /\ f = Len(v.s)
              THEN [raised |-> "",
                    value |-> DecimalVal(SubSeq(v.s, 1, e), SubSeq(v.s, e + 2, f))]
              ELSE [raised |-> "ValueError", value |-> 0]
      [] OTHER -> [raised |-> "TypeError", value |-> 0]

\* the part of _parse_score after the JSON attempt
parse_score_from_text(response) ==
    LET m == FirstScoreInRange(response, 1)
    IN IF m.found THEN m.value ELSE NEUTRAL_RELEVANCE

\* _parse_score: raised = "TypeError" when float() raises one (not caught there)
parse_score(response) ==
    IF HasSpan(response, "{", "}")
    THEN LET loaded == JsonLoads(Span(response, "{", "}"))
         IN IF ~loaded.ok THEN [raised |-> "", value |-> NEUTRAL_RELEVANCE]
            ELSE IF "score" \in DOMAIN loaded.value.d
                 THEN LET f == FloatOf(loaded.value.d["score"])
                      IN IF f.raised = "ValueError"
                         THEN [raised |-> "", value |-> NEUTRAL_RELEVANCE]
                         ELSE IF f.raised # "" THEN f
                         ELSE [raised |-> "", value |-> Max(0, Min(MAX_RELEVANCE, f.value))]
                 ELSE [raised |-> "", value |-> parse_score_from_text(response)]
    ELSE [raised |-> "", value |-> parse_score_from_text(response)]

\* _make_cache_key
make_cache_key(company, context, entity_type) ==
    entity_type \o ":" \o Lower(company.name) \o ":" \o Lower(context.industry)

\* a scorer that gives 0.0 to a candidate whose agent call raised
score_relevance_zero_on_error(cache, company, context, entity_type, outcome) ==
    LET key == make_cache_key(company, context, entity_type)
        parsed == parse_score(outcome.text)
    IN IF outcome.raised \/ parsed.raised # ""
       THEN [score |-> 0, cache |-> cache]
       ELSE [score |-> parsed.value,
             cache |-> [k \in DOMAIN cache \cup {key} |->
                           IF k = key THEN parsed.value ELSE cache[k]]]

\* score_customer_relevance / score_partner_relevance after a cache miss,
\* given the outcome of the agent call: the score returned and the cache left
score_relevance(cache, company, context, entity_type, outcome) ==
    LET key == make_cache_key(company, context, entity_type)
        parsed == parse_score(outcome.text)
    IN IF outcome.raised \/ parsed.raised # ""
       THEN [score |-> NEUTRAL_RELEVANCE, cache |-> cache]
       ELSE [score |-> parsed.value,
             cache |-> [k \in DOMAIN cache \cup {key} |->
                           IF k = key THEN parsed.value ELSE cache[k]]]

\* list.sort(key=..., reverse=True) on [key, item] records: stable, by insertion
RECURSIVE InsertByKey(_, _)
InsertByKey(sorted, x) ==
    IF sorted = <<>> THEN <<x>>
    ELSE IF x.key > sorted[1].key THEN <<x>> \o sorted
    ELSE <<sorted[1]>> \o InsertByKey(Tail(sorted), x)

RECURSIVE SortDescending(_)
SortDescending(list) ==
    IF list = <<>> THEN <<>>
    ELSE The({InsertByKey(front, list[Len(list)]) :
                 front \in {SortDescending(SubSeq(list, 1, Len(list) - 1))}})

\* scored_companies.sort(key=lambda x: x[1], reverse=True)
sort_scored(scored_companies) ==
    LET keyed == [i \in 1..Len(scored_companies) |->
                     [key |-> scored_companies[i].score, item |-> scored_companies[i]]]
        sorted == SortDescending(keyed)
    IN [i \in 1..Len(sorted) |-> sorted[i].item]

\* filter_by_threshold
filter_by_threshold(scored_companies, threshold) ==
    LET keep == {i \in 1..Len(scored_companies) : scored_companies[i].score >= threshold}
        Nth(n) == CHOOSE i \in keep : Cardinality({k \in keep : k < i}) = n - 1
    IN [n \in 1..Cardinality(keep) |-> scored_companies[Nth(n)].company]

CUSTOMER_MAX_CANDIDATES == 20
PARTNER_MAX_CANDIDATES == 10

\* _filter_by_relevance / _filter_by_partnership_potential once batch_score
\* has returned the sorted (company, score) pairs
filter_relevant(scored_companies, entity_type) ==
    Take(filter_by_threshold(scored_companies, RELEVANCE_THRESHOLD),
         IF entity_type = "customer" THEN CUSTOMER_MAX_CANDIDATES
         ELSE PARTNER_MAX_CANDIDATES)

\* a scorer that asks the agent every time
score_without_cache(cache, company, context, entity_type, outcome) ==
    LET r == The({score_relevance(cache, c, context, entity_type, outcome) :
                     c \in {company}})
    IN [score |-> r.score, cache |-> r.cache, agent_calls |-> 1]

\* score_customer_relevance / score_partner_relevance: the cached score if
\* there is one, else the agent is called (agent_calls = 1) and answers `outcome`
score_with_cache(cache, company, context, entity_type, outcome) ==
    LET key == make_cache_key(company, context, entity_type)
    IN IF key \in DOMAIN cache
       THEN [score |-> cache[key], cache |-> cache, agent_calls |-> 0]
       ELSE LET r == The({score_relevance(cache, c, context, entity_type, outcome) :
                             c \in {company}})
            IN [score |-> r.score, cache |-> r.cache, agent_calls |-> 1]

\* the entity type batch_score scores a candidate as: anything but "partner"
\* goes to score_customer_relevance
ScoredAs(entity_type) == IF entity_type = "partner" THEN "partner" ELSE "customer"

\* the loop of batch_score after its first n candidates; outcomes[i] is what
\* the agent answers for candidate i if it is asked.  scored: the (company,
\* score) pairs in input order; asked: for each candidate, the agent calls
\* made and whether the score was stored in the cache
RECURSIVE BatchLoop(_, _, _, _, _, _)
BatchLoop(cache, companies, context, entity_type, outcomes, n) ==
    IF n = 0 THEN [scored |-> <<>>, asked |-> <<>>, cache |-> cache]
    ELSE LET before == The({BatchLoop(cache, companies, context, entity_type, outcomes, m) :
                               m \in {n - 1}})
             r == The({score_with_cache(b.cache, companies[n], context,
                                        ScoredAs(entity_type), outcomes[n]) :
                          b \in {before}})
         IN [scored |-> Append(before.scored, [company |-> companies[n], score |-> r.score]),
             asked |-> Append(before.asked, [agent_calls |-> r.agent_calls,
                                             stored |-> r.cache # before.cache]),
             cache |-> r.cache]

\* the log line after the sort: scored_companies[0] raises on an empty list
log_top_and_lowest(scored_companies) ==
    IF scored_companies = <<>> THEN "IndexError" ELSE ""

\* batch_score: raised = "IndexError" when the list of candidates is empty
batch_score(cache, companies, context, entity_type, outcomes) ==
    The({[raised |-> log_top_and_lowest(done.sorted),
          scored |-> IF log_top_and_lowest(done.sorted) = "" THEN done.sorted ELSE <<>>,
          unsorted |-> done.scored,
          asked |-> done.asked,
          cache |-> done.cache] :
            done \in {[sorted |-> sort_scored(loop.scored)] @@ loop :
                         loop \in {BatchLoop(cache, companies, context, entity_type,
                                             outcomes, Len(companies))}}})

\* clear_cache
clear_cache(cache) == <<>>

\* get_cache_size
get_cache_size(cache) == Cardinality(DOMAIN cache)

(***************************************************************************)
(* scoring/match_scorer.py                                                 *)
(***************************************************************************)
DEFAULT_SCORE == 50
PARTIAL_MATCH == 85

\* end of the match of \d+(?:\.\d+)?\b that starts at i, 0 if there is none
NumberMatchEnd(s, i) ==
    LET e == DigitsEnd(s, i)
        f == IF At(s, e + 1) = "." THEN DigitsEnd(s, e + 2) ELSE e
    IN IF e < i THEN 0
       ELSE IF f > e + 1 /\ Boundary(s, f + 1) THEN f
       ELSE IF Boundary(s, e + 1) THEN e
       ELSE 0

\* an extraction that returns the first number as it is written
extract_numeric_score_unclamped(response) ==
    LET hits == {i \in 1..Len(response) : Boundary(response, i) /\ NumberMatchEnd(response, i) # 0}
    IN IF hits = {} THEN Pts(DEFAULT_SCORE)
       ELSE LET i == CHOOSE h \in hits : \A k \in hits : h <= k
                e == DigitsEnd(response, i)
                f == NumberMatchEnd(response, i)
            IN DecimalVal(SubSeq(response, i, e), SubSeq(response, e + 2, f))

\* _extract_numeric_score: the first number of the response, clamped
extract_numeric_score(response) ==
    LET hits == {i \in 1..Len(response) : Boundary(response, i) /\ NumberMatchEnd(response, i) # 0}
    IN IF hits = {} THEN Pts(DEFAULT_SCORE)
       ELSE LET i == CHOOSE h \in hits : \A k \in hits : h <= k
                e == DigitsEnd(response, i)
                f == NumberMatchEnd(response, i)
            IN Clamp(DecimalVal(SubSeq(response, i, e), SubSeq(response, e + 2, f)))

\* _fallback_relevance_score
fallback_relevance_score(company, context) ==
    SimilarityScore(
        Lower(Join(<<context.industry, Join(context.products_services, " "),
                     context.target_market>>, " ")),
        Lower(company.description \o " " \o company.name))

\* _calculate_relevance_score, given the outcome of its agent call
calculate_relevance_score(company, context, outcome) ==
    IF outcome.raised THEN fallback_relevance_score(company, context)
    ELSE extract_numeric_score(outcome.text)

LowerStrip(list) == [i \in 1..Len(list) |-> Strip(Lower(list[i]))]

\* a geographic fit without the 0.85 of a substring match
calculate_geographic_fit_unfloored(company_locations, context_geography) ==
    IF company_locations = <<>> \/ context_geography = <<>> THEN Pts(DEFAULT_SCORE)
    ELSE LET company_locs == LowerStrip(company_locations)
             context_locs == LowerStrip(context_geography)
         IN IF Range(company_locs) \cap Range(context_locs) # {} THEN Pts(MAX_SCORE)
            ELSE MaxOf({SimilarityScore(company_locs[i], context_locs[j]) :
                        i \in 1..Len(company_locs), j \in 1..Len(context_locs)})

\* _calculate_geographic_fit
calculate_geographic_fit(company_locations, context_geography) ==
    IF company_locations = <<>> \/ context_geography = <<>> THEN Pts(DEFAULT_SCORE)
    ELSE LET company_locs == LowerStrip(company_locations)
             context_locs == LowerStrip(context_geography)
         IN IF Range(company_locs) \cap Range(context_locs) # {} THEN Pts(MAX_SCORE)
            ELSE MaxOf({IF Contains(context_locs[j], company_locs[i])
                           \/ Contains(company_locs[i], context_locs[j])
                        THEN Pts(PARTIAL_MATCH)
                        ELSE SimilarityScore(company_locs[i], context_locs[j]) :
                        i \in 1..Len(company_locs), j \in 1..Len(context_locs)})

\* size_indicators, in the order the dict is iterated
SizeIndicators ==
    << [size |-> "small",
        words |-> {"smb", "small", "startup", "entrepreneur", "small business", "local"}],
       [size |-> "medium",
        words |-> {"mid-market", "medium", "growing", "regional", "middle market"}],
       [size |-> "large",
        words |-> {"enterprise", "large", "fortune", "global", "multinational", "corporation"}] >>

\* size_map.get(size, 1)
SizeValue(size) ==
    CASE size = "small" -> 0 [] size = "medium" -> 1 [] size = "large" -> 2 [] OTHER -> 1

\* a size fit that is neutral for a size outside small/medium/large
calculate_size_fit_neutral_unmapped(company_size, context) ==
    LET target_market == Lower(context.target_market)
        hits == {i \in 1..Len(SizeIndicators) :
                    \E w \in SizeIndicators[i].words : Contains(target_market, w)}
    IN IF hits = {} \/ Strip(Lower(company_size)) \notin {"small", "medium", "large"}
       THEN Pts(DEFAULT_SCORE)
       ELSE LET target == SizeIndicators[CHOOSE i \in hits : \A k \in hits : i <= k].size
                d == SizeValue(Strip(Lower(company_size))) - SizeValue(target)
            IN IF d = 0 THEN Pts(100)
               ELSE IF d = 1 \/ d = -1 THEN Pts(70)
               ELSE Pts(30)

\* _calculate_size_fit
calculate_size_fit(company_size, context) ==
    IF company_size = "" \/ Lower(company_size) = "unknown" THEN Pts(DEFAULT_SCORE)
    ELSE LET target_market == Lower(context.target_market)
             hits == {i \in 1..Len(SizeIndicators) :
                         \E w \in SizeIndicators[i].words : Contains(target_market, w)}
         IN IF hits = {} THEN Pts(DEFAULT_SCORE)
            ELSE LET target == SizeIndicators[CHOOSE i \in hits : \A k \in hits : i <= k].size
                     d == SizeValue(Strip(Lower(company_size))) - SizeValue(target)
                 IN IF d = 0 THEN Pts(100)
                    ELSE IF d = 1 \/ d = -1 THEN Pts(70)
                    ELSE Pts(30)

\* _calculate_strategic_alignment
calculate_strategic_alignment(company, context) ==
    LET desc == Lower(company.description)
        keywords == Words(Lower(context.industry))
        matching_keywords ==
            Cardinality({i \in 1..Len(keywords) :
                            Len(keywords[i]) > 3 /\ Contains(desc, keywords[i])})
        products == context.products_services
        matching_products ==
            Cardinality({i \in 1..Len(products) : Contains(desc, Lower(products[i]))})
        boost1 == IF context.industry # "" /\ company.description # "" /\ matching_keywords > 0
                  THEN Min(Pts(30), matching_keywords * Pts(10)) ELSE 0
        boost2 == IF products # <<>> /\ company.description # "" /\ matching_products > 0
                  THEN Min(Pts(20), matching_products * Pts(10)) ELSE 0
    IN Clamp(Pts(DEFAULT_SCORE) + boost1 + boost2)

Count(b) == IF b THEN 1 ELSE 0

\* a confidence whose thresholds must be exceeded
determine_confidence_strict(company, context) ==
    LET data_points ==
            Count(company.name # "") + Count(company.description # "")
            + Count(company.locations # <<>>)
            + Count(company.size_estimate # "" /\ Lower(company.size_estimate) # "unknown")
            + Count(context.industry # "") + Count(context.products_services # <<>>)
            + Count(context.target_market # "") + Count(context.geography # <<>>)
    IN IF 4 * data_points > 3 * 8 THEN "High"
       ELSE IF 2 * data_points > 8 THEN "Medium"
       ELSE "Low"

\* _determine_confidence: completeness >= 0.75 is 6 of 8, >= 0.50 is 4 of 8
determine_confidence(company, context) ==
    LET data_points ==
            Count(company.name # "") + Count(company.description # "")
            + Count(company.locations # <<>>)
            + Count(company.size_estimate # "" /\ Lower(company.size_estimate) # "unknown")
            + Count(context.industry # "") + Count(context.products_services # <<>>)
            + Count(context.target_market # "") + Count(context.geography # <<>>)
    IN IF 4 * data_points >= 3 * 8 THEN "High"
       ELSE IF 2 * data_points >= 8 THEN "Medium"
       ELSE "Low"

\* weights 0.40 / 0.20 / 0.20 / 0.20 in tenths
WEIGHT_RELEVANCE == 4
WEIGHT_OTHER == 2

\* the plain average of the four components
plain_average(relevance_score, geographic_fit, size_fit, strategic_fit) ==
    (relevance_score + geographic_fit + size_fit + strategic_fit) \div 4

\* overall_score of score_match: the weighted sum of the four components
weighted_overall(relevance_score, geographic_fit, size_fit, strategic_fit) ==
    (WEIGHT_RELEVANCE * relevance_score + WEIGHT_OTHER * geographic_fit
     + WEIGHT_OTHER * size_fit + WEIGHT_OTHER * strategic_fit) \div 10

\* score_match, given the outcome of its agent call
score_match(company, context, entity_type, outcome) ==
    LET relevance_score == calculate_relevance_score(company, context, outcome)
        geographic_fit == calculate_geographic_fit(company.locations, context.geography)
        size_fit == calculate_size_fit(company.size_estimate, context)
        strategic_fit == calculate_strategic_alignment(company, context)
    IN MatchScore(
        weighted_overall(relevance_score, geographic_fit, size_fit, strategic_fit),
        relevance_score, geographic_fit, size_fit, strategic_fit,
        determine_confidence(company, context))

(***************************************************************************)
(* discovery/web_search.py and discovery/search_parser.py                  *)
(***************************************************************************)
MAX_RESULTS_PER_QUERY == 5

SearchResult(url, result_text, snippet) ==
    [url |-> url, result_text |-> result_text, snippet |-> snippet, query |-> ""]

\* an item of the parsed array that the conversion loop can handle
IsSearchItem(item) ==
    /\ item.j = "dict"
    /\ JGet(item.d, "url", JStr("")).j = "str"
    /\ JGet(item.d, "title", JStr("")).j = "str"
    /\ JGet(item.d, "snippet", JStr("")).j = "str"

\* the conversion loop of _parse_search_results over well-formed items
RECURSIVE ConvertItems(_)
ConvertItems(items) ==
    IF items = <<>> THEN <<>>
    ELSE LET item == items[1].d
             url == JGet(item, "url", JStr("")).s
             title == JGet(item, "title", JStr("")).s
             snippet == JGet(item, "snippet", JStr("")).s
         IN (IF url # "" THEN <<SearchResult(url, title \o "\n" \o snippet, snippet)>>
             ELSE <<>>) \o ConvertItems(Tail(items))

\* the line scanner of _parse_search_results (plain-text responses)
RECURSIVE ScanLines(_, _, _)
ScanLines(lines, current, results) ==
    IF lines = <<>>
    THEN IF current.url # "" THEN Append(results, current) ELSE results
    ELSE LET line == Strip(lines[1])
         IN IF StartsWith(line, "http")
            THEN ScanLines(Tail(lines), SearchResult(line, "", ""),
                           IF current.url # "" THEN Append(results, current) ELSE results)
            ELSE IF current.url # "" /\ line # ""
            THEN ScanLines(Tail(lines),
                           [current EXCEPT !.result_text = @ \o line \o "\n",
                                           !.snippet = IF @ = "" THEN line ELSE @],
                           results)
            ELSE ScanLines(Tail(lines), current, results)

\* _parse_search_results: any exception while converting gives the empty list
parse_search_results(response) ==
    IF HasSpan(response, "[", "]")
    THEN LET loaded == JsonLoads(Span(response, "[", "]"))
         IN IF loaded.ok /\ loaded.value.j = "list"
               /\ \A i \in 1..Len(loaded.value.l) : IsSearchItem(loaded.value.l[i])
            THEN ConvertItems(loaded.value.l)
            ELSE <<>>
    ELSE ScanLines(Lines(response), SearchResult("", "", ""), <<>>)

\* _search_with_agent inside the try of search(): the results one query adds
search_one(query, outcome) ==
    IF outcome.raised THEN <<>>
    ELSE LET results == Take(parse_search_results(outcome.text), MAX_RESULTS_PER_QUERY)
         IN [i \in 1..Len(results) |-> [results[i] EXCEPT !.query = query]]

\* text = result.get("result_text") or result.get("snippet", "")
ResultText(result) == IF result.result_text # "" THEN result.result_text ELSE result.snippet

\* parse_multiple_results skips the result, or parse_company_info returns
\* None, before any agent call
SkippedWithoutCall(result) == ResultText(result) = "" \/ Strip(ResultText(result)) = ""

\* _extract_json_from_response
extract_json_from_response(response_text) ==
    LET direct == JsonLoads(response_text)
    IN IF direct.ok THEN direct.value
       ELSE IF HasSpan(response_text, "{", "}")
            THEN LET inner == JsonLoads(Span(response_text, "{", "}"))
                 IN IF inner.ok THEN inner.value ELSE JNull
            ELSE JNull

\* type(v).__name__ of a JSON value
PyTypeName(v) ==
    CASE v.j = "null" -> "NoneType" [] v.j = "str" -> "str" [] v.j = "num" -> "float"
      [] v.j = "list" -> "list" [] OTHER -> "dict"

NoLower(v) == "'" \o PyTypeName(v) \o "' object has no attribute 'lower'"

\* a list item that is not a str, stood for by the name of its type
NotStr(v) == "<" \o PyTypeName(v) \o ">"

NotStrItems == {NotStr(JNull), NotStr(JNum(0)), NotStr(JList(<<>>)), NotStr(JDict(<<>>))}

\* the items of a JSON list as the list holds them
JItems(list) == [i \in 1..Len(list) |-> IF list[i].j = "str" THEN list[i].s ELSE NotStr(list[i])]

\* ', '.join(items) does not raise TypeError: every item is a str
CanJoin(items) == \A i \in 1..Len(items) : items[i] \notin NotStrItems

\* loc.lower() on the first item that is not a str: the AttributeError
LowerFails(items) ==
    LET first == CHOOSE i \in 1..Len(items) :
                     /\ items[i] \in NotStrItems
                     /\ \A k \in 1..(i - 1) : items[k] \notin NotStrItems
    IN "'" \o SubSeq(items[first], 2, Len(items[first]) - 1)
       \o "' object has no attribute 'lower'"

\* parse_company_info with the agent, followed by the duplicate key that
\* parse_multiple_results computes from the result:
\*   kind "none"    - no company (the call raised, no usable JSON)
\*   kind "company" - a CompanyInfo
\*   kind "raised"  - name or website is not a string, so .lower() raises
ParsedCompany(source_url, outcome) ==
    LET data == IF outcome.raised THEN JNull ELSE extract_json_from_response(outcome.text)
    IN IF data.j # "dict" \/ ~JTruthy(data)
       THEN [kind |-> "none", company |-> None, msg |-> ""]
       ELSE LET name == JGet(data.d, "name", JStr("Unknown"))
                website == JGet(data.d, "website", JStr(source_url))
            IN IF name.j # "str"
               THEN [kind |-> "raised", company |-> None, msg |-> NoLower(name)]
               ELSE IF website.j # "str"
               THEN [kind |-> "raised", company |-> None, msg |-> NoLower(website)]
               ELSE [kind |-> "company", msg |-> "",
                     company |-> Some(CompanyInfo(
                         name.s, website.s,
                         JItems(JGet(data.d, "locations", JList(<<>>)).l),
                         JGet(data.d, "size_estimate", JStr("Unknown")).s,
                         JGet(data.d, "description", JStr("")).s,
                         IF source_url # "" THEN <<source_url>> ELSE <<>>))]

parse_company_info(source_url, outcome) == ParsedCompany(source_url, outcome)

\* key = (name.lower(), website.lower())
CompanyKey(company) == <<Lower(company.name), Lower(company.website)>>

Keys(companies) == {CompanyKey(companies[i]) : i \in 1..Len(companies)}

\* a deduplication that tells letter cases apart
RECURSIVE deduplicate_case_sensitive(_)
deduplicate_case_sensitive(companies) ==
    IF companies = <<>> THEN <<>>
    ELSE LET front == deduplicate_case_sensitive(SubSeq(companies, 1, Len(companies) - 1))
             last == companies[Len(companies)]
         IN IF \E i \in 1..Len(front) :
                   front[i].name = last.name /\ front[i].website = last.website
            THEN front ELSE Append(front, last)

\* deduplicate_companies: the first company of each key, in order
RECURSIVE deduplicate_companies(_)
deduplicate_companies(companies) ==
    IF companies = <<>> THEN <<>>
    ELSE LET front == deduplicate_companies(SubSeq(companies, 1, Len(companies) - 1))
             last == companies[Len(companies)]
         IN IF CompanyKey(last) \in Keys(front) THEN front ELSE Append(front, last)

\* CompanyInfo.__eq__: the same name or the same website, letter case aside
CompanyEq(a, b) == Lower(a.name) = Lower(b.name) \/ Lower(a.website) = Lower(b.website)

\* CompanyInfo.__hash__: the hash of the lower-cased name, stood for by the
\* string that is hashed
CompanyHash(a) == Lower(a.name)

\* company in companies, companies a list: some element == company
InList(company, companies) == \E i \in 1..Len(companies) : CompanyEq(companies[i], company)

\* company in set(companies): some element with the same hash == company
InSet(company, companies) ==
    \E i \in 1..Len(companies) :
        CompanyHash(companies[i]) = CompanyHash(company) /\ CompanyEq(companies[i], company)

\* DiscoveryResult.add_company
add_company(companies, company) ==
    IF InList(company, companies) THEN companies ELSE Append(companies, company)

(***************************************************************************)
(* discovery/customer_discovery.py and discovery/partner_discovery.py      *)
(***************************************************************************)
\* an enrichment that copies the three values whenever the key is present
enrich_info_overwriting(company, outcome) ==
    IF outcome.raised \/ ~HasSpan(outcome.text, "{", "}") THEN company
    ELSE LET loaded == JsonLoads(Span(outcome.text, "{", "}"))
             data == loaded.value.d
             Present(key) == key \in DOMAIN data
         IN IF ~loaded.ok \/ ~JTruthy(loaded.value) THEN company
            ELSE [company EXCEPT
                    !.description = IF Present("description") THEN data["description"].s ELSE @,
                    !.locations = IF Present("locations")
                                  THEN JStrings(data["locations"].l) ELSE @,
                    !.size_estimate = IF Present("size_estimate")
                                      THEN data["size_estimate"].s ELSE @]

\* _enrich_company_info / _enrich_partner_info, given the outcome of the call
enrich_info(company, outcome) ==
    IF outcome.raised \/ ~HasSpan(outcome.text, "{", "}") THEN company
    ELSE LET loaded == JsonLoads(Span(outcome.text, "{", "}"))
             data == loaded.value.d
             Filled(key) == key \in DOMAIN data /\ JTruthy(data[key])
         IN IF ~loaded.ok \/ ~JTruthy(loaded.value) THEN company
            ELSE [company EXCEPT
                    !.description = IF Filled("description") THEN data["description"].s ELSE @,
                    !.locations = IF Filled("locations")
                                  THEN JStrings(data["locations"].l) ELSE @,
                    !.size_estimate = IF Filled("size_estimate")
                                      THEN data["size_estimate"].s ELSE @]

\* an average kept as numerator and denominator; 0.0 is 0 / 1
Mean(total, count) == [num |-> total, den |-> count]
ZeroMean == Mean(0, 1)

DiscoveryResult(entity_type, companies, query_used, scored, avg_score) ==
    [entity_type |-> entity_type, companies |-> companies, query_used |-> query_used,
     scored |-> scored, avg_score |-> avg_score]

RECURSIVE SumOverall(_)
SumOverall(companies) ==
    IF companies = <<>> THEN 0
    ELSE (IF companies[1].match_score # None THEN companies[1].match_score[1].overall_score
          ELSE 0) + SumOverall(Tail(companies))

\* the list in the order it was enriched
keep_order(companies) == companies

\* enriched_candidates.sort(key=overall_score or 0.0, reverse=True)
sort_by_overall(companies) ==
    LET keyed == [i \in 1..Len(companies) |->
                     [key |-> IF companies[i].match_score # None
                              THEN companies[i].match_score[1].overall_score ELSE 0,
                      item |-> companies[i]]]
        sorted == SortDescending(keyed)
    IN [i \in 1..Len(sorted) |-> sorted[i].item]

\* avg_score of the partner result
average_score(companies) ==
    IF companies = <<>> THEN ZeroMean ELSE Mean(SumOverall(companies), Len(companies))

(***************************************************************************)
(* The activation of discover(): its position, its locals, and what it     *)
(* returned or raised.  Each operator below runs the code from one agent   *)
(* call to the next.                                                       *)
(***************************************************************************)
NewRun ==
    [pc |-> "new", queries |-> <<>>, qi |-> 0, all_results |-> <<>>, ri |-> 0,
     companies |-> <<>>, candidates |-> None, ci |-> 0, scored_companies |-> <<>>,
     relevant_candidates |-> None, top_candidates |-> <<>>, ti |-> 0,
     exit |-> "", result |-> None, error |-> None]

Exception(type, msg, cause) == [type |-> type, msg |-> msg, cause |-> cause]

Return(m, exit, result) == [m EXCEPT !.pc = "done", !.exit = exit, !.result = Some(result)]

\* raise ValueError("context cannot be None"), before the try
RaiseValueError(m) ==
    [m EXCEPT !.pc = "raised", !.exit = "ValueError",
              !.error = Some(Exception("ValueError", "context cannot be None", ""))]

FailurePrefix(class) ==
    IF class = "customer" THEN "Customer discovery failed: " ELSE "Partner discovery failed: "

\* an exception that leaves discover() as it was raised
RaiseUnwrapped(m, env, msg) ==
    [m EXCEPT !.pc = "raised", !.exit = "Exception",
              !.error = Some(Exception("Exception", msg, msg))]

\* except Exception as e: raise RuntimeError(f"... discovery failed: {e}")
RaiseRuntimeError(m, env, msg) ==
    [m EXCEPT !.pc = "raised", !.exit = "RuntimeError",
              !.error = Some(Exception("RuntimeError", FailurePrefix(env.orch) \o msg, msg))]

\* a pipeline without the early returns
NeverNoneLeft(list) == FALSE

\* if not candidates / if not relevant_candidates
NoneLeft(list) == list = <<>>

EarlyReturn(m, env, exit) ==
    Return(m, exit, DiscoveryResult(env.orch, <<>>, Join(m.queries, ", "), FALSE, ZeroMean))

\* Step 7 and 8 of PartnerDiscovery.discover
finish_partner(m, env) ==
    LET sorted == sort_by_overall(m.top_candidates)
    IN Return([m EXCEPT !.top_candidates = sorted], "complete",
              DiscoveryResult("partner", sorted, Join(m.queries, ", "), TRUE,
                              average_score(sorted)))

\* Step 5 of CustomerDiscovery.discover
finish_customer(m, env) ==
    Return(m, "complete",
           DiscoveryResult("customer", m.top_candidates, Join(m.queries, ", "), FALSE, ZeroMean))

\* a pipeline that enriches the top candidates before it scores them
StageAfterEnrichFirst(class, stage) ==
    CASE class = "partner" /\ stage = "filter" -> "enrich"
      [] class = "partner" /\ stage = "enrich" -> "score"
      [] class = "partner" /\ stage = "score" -> "rationale"
      [] class = "customer" /\ stage = "filter" -> "enrich"
      [] OTHER -> ""

\* the stage that follows a stage, "" after the last one
StageAfter(class, stage) ==
    CASE class = "partner" /\ stage = "filter" -> "score"
      [] class = "partner" /\ stage = "score" -> "enrich"
      [] class = "partner" /\ stage = "enrich" -> "rationale"
      [] class = "customer" /\ stage = "filter" -> "enrich"
      [] OTHER -> ""

\* enter the loops that follow `stage`: the first one with an element to
\* process waits for its agent call; with none left the result is returned
RECURSIVE AfterStage(_, _, _)
AfterStage(m, env, stage) ==
    LET next == StageAfter(env.orch, stage)
    IN IF next = ""
       THEN IF env.orch = "partner" THEN finish_partner(m, env) ELSE finish_customer(m, env)
       ELSE IF m.top_candidates = <<>> THEN AfterStage(m, env, next)
       ELSE [m EXCEPT !.pc = next, !.ti = 1]

\* the candidate object is shared by every list that holds it
Replace(list, old, new) == [i \in 1..Len(list) |-> IF list[i] = old THEN new ELSE list[i]]

Mutate(m, old, new) ==
    [m EXCEPT !.candidates = Some(Replace(@[1], old, new)),
              !.relevant_candidates = Some(Replace(@[1], old, new)),
              !.top_candidates = Replace(@, old, new)]

\* one element of the current loop processed: the next one, or the next stage
NextInStage(m, env) ==
    IF m.ti < Len(m.top_candidates) THEN [m EXCEPT !.ti = @ + 1]
    ELSE AfterStage([m EXCEPT !.ti = 0], env, m.pc)

\* candidate.match_score = self.scorer.score_match(candidate, context, "partner")
scored_candidate(old, env, outcome) ==
    [old EXCEPT !.match_score = Some(score_match(old, env.context[1], "partner", outcome))]

\* candidate.rationale = self.rationale_gen.generate_rationale(...)
explained_candidate(old, outcome) ==
    [old EXCEPT !.rationale =
        Some(generate_rationale(old, old.match_score[1], "partner", outcome))]

\* a loop at a candidate whose prompt, which joins the locations, cannot be
\* built: the agent call is not made.  _enrich_company_info and
\* _enrich_partner_info return the company as it is; score_match raises
\* from _calculate_geographic_fit (the contexts of a run name a geography),
\* so that no such candidate reaches the rationale loop.  Otherwise the
\* loop waits for its call
RECURSIVE AtCandidate(_, _)
AtCandidate(m, env) ==
    IF m.pc \notin {"score", "enrich", "rationale"} THEN m
    ELSE IF CanJoin(m.top_candidates[m.ti].locations) THEN m
    ELSE IF m.pc = "enrich" THEN AtCandidate(NextInStage(m, env), env)
    ELSE RaiseRuntimeError(m, env, LowerFails(m.top_candidates[m.ti].locations))

\* the tail of batch_score (sort, then the log line that indexes [0]), the
\* threshold filter, the cap, the early return and the slice to target_count
AfterRelevance(m, env) ==
    IF m.scored_companies = <<>>
    THEN RaiseRuntimeError(m, env, "list index out of range")
    ELSE LET relevant == filter_relevant(sort_scored(m.scored_companies), env.orch)
             m1 == [m EXCEPT !.scored_companies = <<>>, !.ci = 0,
                             !.relevant_candidates = Some(relevant)]
         IN IF NoneLeft(relevant) THEN EarlyReturn(m1, env, "no_relevant")
            ELSE AtCandidate(
                     AfterStage([m1 EXCEPT !.top_candidates = Take(relevant, env.target_count)],
                                env, "filter"),
                     env)

\* the batch_score loop up to the next candidate whose score is not cached;
\* a candidate whose prompt cannot be built gets 0.5 without a call
RECURSIVE AdvanceRelevance(_, _, _)
AdvanceRelevance(m, env, cache) ==
    IF m.ci > Len(m.candidates[1]) THEN AfterRelevance(m, env)
    ELSE LET company == m.candidates[1][m.ci]
             key == make_cache_key(company, env.context[1], env.orch)
         IN IF key \in DOMAIN cache
            THEN AdvanceRelevance(
                     [m EXCEPT !.ci = @ + 1,
                               !.scored_companies =
                                   Append(@, [company |-> company, score |-> cache[key]])],
                     env, cache)
            ELSE IF ~CanJoin(company.locations)
            THEN AdvanceRelevance(
                     [m EXCEPT !.ci = @ + 1,
                               !.scored_companies =
                                   Append(@, [company |-> company,
                                              score |-> NEUTRAL_RELEVANCE])],
                     env, cache)
            ELSE [m EXCEPT !.pc = "relevance"]

\* search_and_parse returns the candidates; discover() tests them
AfterSearchAndParse(m, env, cache, candidates) ==
    LET m1 == [m EXCEPT !.all_results = <<>>, !.qi = 0, !.ri = 0, !.companies = <<>>,
                        !.candidates = Some(candidates)]
    IN IF NoneLeft(candidates) THEN EarlyReturn(m1, env, "no_candidates")
       ELSE AdvanceRelevance([m1 EXCEPT !.ci = 1], env, cache)

\* parse_multiple_results returns; the companies are deduplicated
AfterParse(m, env, cache) ==
    AfterSearchAndParse(m, env, cache, deduplicate_companies(m.companies))

\* the parse_multiple_results loop up to the next result that needs the agent
RECURSIVE AdvanceParse(_, _, _)
AdvanceParse(m, env, cache) ==
    IF m.ri > Len(m.all_results) THEN AfterParse(m, env, cache)
    ELSE IF SkippedWithoutCall(m.all_results[m.ri])
    THEN AdvanceParse([m EXCEPT !.ri = @ + 1], env, cache)
    ELSE [m EXCEPT !.pc = "parse"]

\* search() returns: no results means no candidates
AfterSearch(m, env, cache) ==
    IF m.all_results = <<>> THEN AfterSearchAndParse(m, env, cache, <<>>)
    ELSE AdvanceParse([m EXCEPT !.qi = 0, !.ri = 1], env, cache)

\* search() entered with the queries: the loop waits for its first call
begin_search(m, env, cache, queries) ==
    IF queries = <<>> THEN AfterSearch([m EXCEPT !.queries = queries], env, cache)
    ELSE [m EXCEPT !.queries = queries, !.pc = "search", !.qi = 1]

\* Step 1: the queries of the orchestrator
build_queries(env) ==
    IF env.orch = "customer" THEN build_customer_queries(env.context[1], env.filters)
    ELSE build_partner_queries(env.context[1], env.filters)

\* discover() up to its first agent call
start_discover(m, env, cache) ==
    IF env.context = None THEN RaiseValueError(m)
    ELSE The({begin_search(m, env, cache, queries) : queries \in {build_queries(env)}})

\* one search query answered
after_search_call(m, env, cache, outcome) ==
    LET m1 == [m EXCEPT !.all_results = @ \o search_one(m.queries[m.qi], outcome),
                        !.qi = @ + 1]
    IN IF m1.qi <= Len(m1.queries) THEN m1 ELSE AfterSearch(m1, env, cache)

\* parse_multiple_results with what parse_company_info gave for the result
after_parsed(m, env, cache, parsed) ==
    IF parsed.kind = "raised"
    THEN RaiseRuntimeError(m, env, "Search and parse operation failed: " \o parsed.msg)
    ELSE LET fresh == /\ parsed.kind = "company"
                      /\ CompanyKey(parsed.company[1]) \notin Keys(m.companies)
         IN AdvanceParse([m EXCEPT !.ri = @ + 1,
                                   !.companies = IF fresh THEN Append(@, parsed.company[1])
                                                 ELSE @],
                         env, cache)

\* one search result parsed
after_parse_call(m, env, cache, outcome) ==
    The({after_parsed(m, env, cache, parsed) :
            parsed \in {parse_company_info(m.all_results[m.ri].url, outcome)}})

\* batch_score with the score of the candidate and the cache left
after_scored(m, env, scored) ==
    [cache |-> scored.cache,
     run |-> AdvanceRelevance(
                 [m EXCEPT !.ci = @ + 1,
                           !.scored_companies =
                               Append(@, [company |-> m.candidates[1][m.ci],
                                          score |-> scored.score])],
                 env, scored.cache)]

\* one candidate scored for relevance: the run and the cache afterwards
after_relevance_call(m, env, cache, outcome) ==
    The({after_scored(m, env, scored) :
            scored \in {score_relevance(cache, m.candidates[1][m.ci], env.context[1],
                                        env.orch, outcome)}})

\* the candidate of the current loop replaced by its updated self
Updated(m, env, new) ==
    AtCandidate(NextInStage(Mutate(m, m.top_candidates[m.ti], new), env), env)

after_score_call(m, env, outcome) ==
    The({Updated(m, env, new) :
            new \in {scored_candidate(m.top_candidates[m.ti], env, outcome)}})

after_enrich_call(m, env, outcome) ==
    The({Updated(m, env, new) : new \in {enrich_info(m.top_candidates[m.ti], outcome)}})

after_rationale_call(m, env, outcome) ==
    The({Updated(m, env, new) :
            new \in {explained_candidate(m.top_candidates[m.ti], outcome)}})

(***************************************************************************)
(* ui/discovery_runner.py and the constructors                             *)
(***************************************************************************)
CUSTOMER_CTOR_ARGS == 3
PARTNER_CTOR_ARGS == 5
RUNNER_CTOR_ARGS == 5

NewUi == [pc |-> "new", ctor_args |-> 0, error |-> None]

\* Class(*args): the argument count must match __init__
construct(u, class, nargs) ==
    LET takes == IF class = "customer" THEN CUSTOMER_CTOR_ARGS ELSE PARTNER_CTOR_ARGS
        Name == IF class = "customer" THEN "CustomerDiscovery" ELSE "PartnerDiscovery"
    IN IF nargs = takes THEN [u EXCEPT !.pc = "constructed", !.ctor_args = nargs]
       ELSE [u EXCEPT !.pc = "raised",
                      !.error = Some(Exception("TypeError",
                          Name \o ".__init__() takes " \o IntStr(takes + 1)
                          \o " positional arguments but " \o IntStr(nargs + 1)
                          \o " were given", ""))]

\* except Exception as e: raise RuntimeError(f"Discovery process failed: {e}")
runner_wrap(u, error) ==
    [u EXCEPT !.pc = "raised",
              !.error = Some(Exception("RuntimeError",
                                       "Discovery process failed: " \o error.msg, error.msg))]

\* the constructor call inside the try of run_discovery
runner_construct(built) ==
    IF built.pc = "raised" THEN runner_wrap(built, built.error[1]) ELSE built

\* run_discovery up to the call of discover(): the arguments are checked
\* and the orchestrator is constructed
run_discovery(u, env) ==
    IF env.orch \notin {"customer", "partner"}
    THEN [u EXCEPT !.pc = "raised",
                   !.error = Some(Exception("ValueError", "Invalid entity_type", ""))]
    ELSE IF env.context = None
    THEN [u EXCEPT !.pc = "raised",
                   !.error = Some(Exception("ValueError", "context cannot be None", ""))]
    ELSE runner_construct(construct(u, env.orch, RUNNER_CTOR_ARGS))

\* discover() has returned or raised inside run_discovery
runner_after(u, how, m) ==
    IF how = "run_discovery" /\ m.pc = "raised" THEN runner_wrap(u, m.error[1])
    ELSE IF m.pc = "done" THEN [u EXCEPT !.pc = "returned"]
    ELSE u

(***************************************************************************)
(* Each specification below exercises one component; the variables of the  *)
(* other components keep the values given here.                            *)
(***************************************************************************)
NoCompany == CompanyInfo("", "", <<>>, "Unknown", "", <<>>)

QBOff ==
    /\ qb_context = BusinessContext("", <<>>, "", <<>>)
    /\ qb_filters = <<>>
    /\ qb_base = ""
    /\ qb_op = "off"
    /\ qb_out = <<>>
    /\ qb_raised = ""

RatOff ==
    /\ rat_company = NoCompany
    /\ rat_score = None
    /\ rat_entity = ""
    /\ rat_outcome = None
    /\ rat_out = None

NoCalls ==
    [search |-> 0, parse |-> 0, relevance |-> 0, score |-> 0, enrich |-> 0, rationale |-> 0]

NoFaults ==
    [search |-> "", parse |-> "", relevance |-> "", score |-> "", enrich |-> "",
     rationale |-> ""]

FltOff ==
    /\ flt_entity = ""
    /\ flt_scores = <<>>
    /\ flt_op = "off"
    /\ flt_passed = <<>>
    /\ flt_out = <<>>

RunOff ==
    /\ entry = ""
    /\ orch = ""
    /\ run_context = None
    /\ target_count = 0
    /\ ui = [NewUi EXCEPT !.pc = "off"]
    /\ run = [NewRun EXCEPT !.pc = "off"]
    /\ score_cache = <<>>
    /\ calls = NoCalls
    /\ faults = NoFaults

NoCall == [op |-> "off"]

RelOff ==
    /\ rel_cache = <<>>
    /\ rel_call = NoCall
    /\ rel_obtained = <<>>

MSOff == ms_call = NoCall

ResOff ==
    /\ res_companies = <<>>
    /\ res_call = NoCall


(***************************************************************************)
(* Inputs of the QueryBuilder specification                                *)
(***************************************************************************)
Market30 == "regional mid-market B2B buyers"
Product30 == "Predictive Analytics Dashboard"
Geo30 == <<"Greater Toronto Area in Canada", "Metropolitan France and Monaco",
           "Australia and New Zealand APAC">>
LongMarket == Rep("enterprise ", LongRepeat)

QBIndustries == {"", "SaaS", "SaaS - Marketing Automation", "-x"}
QBMarkets == {"", "B2B - SMB marketing agencies", "potential SaaS customers",
              "potential -x customers", Market30, LongMarket}
QBProducts == {<<>>, <<"Email platform", "Analytics", "CRM">>, <<Product30>>}
QBGeographies == {<<>>, <<"North America">>, Geo30}

QBContexts ==
    [industry : QBIndustries, products_services : QBProducts,
     target_market : QBMarkets, geography : QBGeographies]

FilterMap(geo, ind, size, ptype) ==
    [geography |-> geo, industry |-> ind, size |-> size, partnership_type |-> ptype]

QBFilters ==
    {FilterMap(NoneV, NoneV, NoneV, NoneV),
     FilterMap(StrV("Berlin"), NoneV, NoneV, NoneV),
     FilterMap(ListV(Geo30), NoneV, NoneV, NoneV),
     FilterMap(NoneV, StrV("Healthcare"), NoneV, NoneV),
     FilterMap(NoneV, ListV(<<"">>), NoneV, NoneV),
     FilterMap(StrV("Berlin"), ListV(<<"Fintech", "Retail", "Energy">>), NoneV, NoneV),
     FilterMap(StrV("Toronto"), StrV("HEALTHCARE"), NoneV, NoneV),
     FilterMap(NoneV, NoneV, StrV("50-200 employees"), StrV("technology")),
     FilterMap(ListV(Geo30), StrV("Healthcare"), ListV(<<"SMB", "mid">>),
               StrV("distribution"))}

QBBaseQueries == {"marketing agencies", "Healthcare startups in Berlin", "plugin developers"}

(***************************************************************************)
(* QueryBuilder specification: one operation applied to drawn inputs       *)
(***************************************************************************)
InitQB ==
    /\ qb_context \in QBContexts
    /\ qb_filters \in QBFilters
    /\ qb_base = ""
    /\ qb_op = "idle"
    /\ qb_out = <<>>
    /\ qb_raised = ""
    /\ RatOff /\ FltOff /\ RunOff /\ RelOff /\ MSOff /\ ResOff

BuildCustomerQueries ==
    /\ qb_op = "idle"
    /\ qb_op' = "customer"
    /\ qb_out' = build_customer_queries(qb_context, qb_filters)
    /\ qb_raised' = ""
    /\ UNCHANGED <<qb_context, qb_filters, qb_base, notQB>>

BuildPartnerQueries ==
    /\ qb_op = "idle"
    /\ qb_op' = "partner"
    /\ qb_out' = build_partner_queries(qb_context, qb_filters)
    /\ qb_raised' = ""
    /\ UNCHANGED <<qb_context, qb_filters, qb_base, notQB>>

RefineQuery ==
    /\ qb_op = "idle"
    /\ qb_op' = "refine"
    /\ \E base \in QBBaseQueries :
          LET r == refine_query(base, qb_filters)
          IN /\ qb_base' = base
             /\ qb_raised' = r.raised
             /\ qb_out' = IF r.raised = "" THEN <<r.value>> ELSE <<>>
    /\ UNCHANGED <<qb_context, qb_filters, notQB>>

NextQB == BuildCustomerQueries \/ BuildPartnerQueries \/ RefineQuery

SpecQB == InitQB /\ [][NextQB]_vars


(***************************************************************************)
(* RationaleGenerator specification: generate_rationale applied to a drawn *)
(* company, score and entity type, with a drawn outcome of the agent call  *)
(***************************************************************************)
RatOverallScores ==
    {0, Pts(45), Pts(60) - 1, Pts(60), Pts(60) + 1, Pts(72) + 500,
     Pts(80) - 1, Pts(80), Pts(80) + 1, Pts(100)}

RatComponentScores == {Pts(50), Pts(70), Pts(85) + 500}

RatScores ==
    {MatchScore(o, r, g, z, t, conf) :
        o \in RatOverallScores, r \in RatComponentScores, g \in RatComponentScores,
        z \in {Pts(50), Pts(70)}, t \in {Pts(70) - 1, Pts(90)},
        conf \in {"High", "Medium", "Low"}}

RatCompanies ==
    {CompanyInfo("Acme Corp", "https://acme.com", <<"Berlin">>, "Medium",
                 "CRM software for SaaS teams", <<"https://acme.com">>)}

RatEntityTypes == {"customer", "partner", "Partner"}

RatOutcomes ==
    {AgentDown,
     Returns(""),
     Returns("I cannot help with that."),
     Returns("} no object here {"),
     Returns("{\"summary\": \"Great fit\", "),
     Returns("{not json}"),
     Returns(RatStrongJson),
     Returns("Here is the rationale:\n" \o RatGoodJson \o "\nHope this helps."),
     Returns(RatFairJson),
     Returns("json\n" \o RatOtherJson \o "\n"),
     Returns(RatNullJson),
     Returns(RatBareJson)}

InitRat ==
    /\ rat_company \in RatCompanies
    /\ rat_score \in {Some(s) : s \in RatScores}
    /\ rat_entity \in RatEntityTypes
    /\ rat_outcome = None
    /\ rat_out = None
    /\ QBOff /\ FltOff /\ RunOff /\ RelOff /\ MSOff /\ ResOff

\* generate_rationale whose agent call raises: the template rationale is returned
GenerateRationaleAgentRaises ==
    /\ rat_out = None
    /\ rat_outcome' = Some(AgentDown)
    /\ rat_out' = Some(generate_rationale(rat_company, rat_score[1], rat_entity, AgentDown))
    /\ UNCHANGED <<rat_company, rat_score, rat_entity, notRat>>

\* generate_rationale whose agent call returns a text
GenerateRationaleAgentReturns ==
    /\ rat_out = None
    /\ \E outcome \in RatOutcomes :
          /\ ~outcome.raised
          /\ rat_outcome' = Some(outcome)
          /\ rat_out' = Some(generate_rationale(rat_company, rat_score[1], rat_entity, outcome))
    /\ UNCHANGED <<rat_company, rat_score, rat_entity, notRat>>

NextRat == GenerateRationaleAgentRaises \/ GenerateRationaleAgentReturns

SpecRat == InitRat /\ [][NextRat]_vars

(***************************************************************************)
(* Relevance filter specification: _filter_by_relevance (customer) and     *)
(* _filter_by_partnership_potential (partner) applied to a drawn list of   *)
(* candidates whose relevance scores are drawn too.                        *)
(***************************************************************************)
MaxCandidates == 22

FltScorePool == {100, 299, 300, 450, 500, 599, 600, 850}

\* candidate i of a list
FltCompany(i) ==
    CompanyInfo("Company " \o IntStr(i), "https://c" \o IntStr(i) \o ".example", <<>>,
                "Unknown", "", <<>>)

\* a list of n scores that repeats the pattern a, b, c
FltScoreLists ==
    {[i \in 1..n |-> IF i % 3 = 1 THEN a ELSE IF i % 3 = 2 THEN b ELSE c] :
        n \in 0..MaxCandidates, a \in FltScorePool, b \in FltScorePool, c \in {300, 599, 850}}

InitFlt ==
    /\ flt_entity \in {"customer", "partner"}
    /\ flt_scores \in FltScoreLists
    /\ flt_op = "idle"
    /\ flt_passed = <<>>
    /\ flt_out = <<>>
    /\ QBOff /\ RatOff /\ RunOff /\ RelOff /\ MSOff /\ ResOff

\* what batch_score collects: (company, score) in the order of the candidates
FltScored == [i \in 1..Len(flt_scores) |-> [company |-> FltCompany(i), score |-> flt_scores[i]]]

\* the filter of the orchestrator on a list with at least one candidate
FilterCandidates ==
    /\ flt_op = "idle"
    /\ flt_scores # <<>>
    /\ flt_op' = "returned"
    /\ flt_passed' = filter_by_threshold(sort_scored(FltScored), RELEVANCE_THRESHOLD)
    /\ flt_out' = filter_relevant(sort_scored(FltScored), flt_entity)
    /\ UNCHANGED <<flt_entity, flt_scores, notFlt>>

\* the filter on an empty list: batch_score's log line indexes the first pair
FilterNoCandidates ==
    /\ flt_op = "idle"
    /\ flt_scores = <<>>
    /\ flt_op' = "raised"
    /\ UNCHANGED <<flt_entity, flt_scores, flt_passed, flt_out, notFlt>>

NextFlt == FilterCandidates \/ FilterNoCandidates

SpecFlt == InitFlt /\ [][NextFlt]_vars

(***************************************************************************)
(* Discovery specification: run_discovery, or a directly constructed       *)
(* orchestrator, runs discover(); every agent call is one step whose       *)
(* outcome (an exception or a response text) is drawn.                     *)
(***************************************************************************)
MaxResults == 2
MaxTarget == 2

Profile == BusinessContext("SaaS", <<"CRM software">>, "small business owners", <<"Austin">>)

TextResponse == "https://beta.io\nBeta Labs\nData pipelines for retail"

\* a call that fails: it raises, or its text cannot be used
SearchFailures ==
    {AgentDown, Returns("No results found."), Returns("[broken]"), Returns(SearchNullTitleJson)}
\* (the last one is the JSON object the prompt asks for, with a null name)
ParseFailures ==
    {AgentDown, Returns("Sorry, I could not read that page."), Returns(ParseNullNameJson)}
RelevanceFailures == {AgentDown, Returns("{score: high}")}
ScoreFailures == {AgentDown}
EnrichFailures == {AgentDown, Returns("{not json}")}
RationaleFailures == {AgentDown, Returns("{\"summary\": \"Great fit\", ")}

SearchOutcomes ==
    SearchFailures \cup
    {Returns(SearchTwoJson), Returns(SearchOneJson), Returns(SearchBlankJson),
     Returns(TextResponse)}

ParseOutcomes ==
    ParseFailures \cup
    {Returns(ParseAcmeJson), Returns("Extracted:\n" \o ParseAcmeUpperJson),
     Returns(ParseBetaJson)}

RelevanceOutcomes ==
    RelevanceFailures \cup {Returns(RelHighJson), Returns(RelLowJson)}

ScoreOutcomes == ScoreFailures \cup {Returns("Score: 85 out of 100")}

EnrichOutcomes == EnrichFailures \cup {Returns(EnrichSizeJson)}

RationaleOutcomes == RationaleFailures \cup {Returns(RatGoodJson)}

Env == [orch |-> orch, context |-> run_context, target_count |-> target_count,
        filters |-> FilterMap(NoneV, NoneV, NoneV, NoneV)]

Init ==
    /\ entry \in {"run_discovery", "direct"}
    /\ orch \in {"customer", "partner", "vendor"}
    /\ entry = "direct" => orch # "vendor"
    /\ run_context \in {None, Some(Profile)}
    /\ target_count \in 0..MaxTarget
    /\ entry = "run_discovery" => target_count = MaxTarget
    /\ ui = NewUi
    /\ run = NewRun
    /\ score_cache = <<>>
    /\ calls = NoCalls
    /\ faults = NoFaults
    /\ QBOff /\ RatOff /\ FltOff /\ RelOff /\ MSOff /\ ResOff

\* the calls of an operation so far: "" none made, "all" every one failed,
\* "none" every one answered, "some" both
FaultStatus(status, failed) ==
    CASE status = "" -> IF failed THEN "all" ELSE "none"
      [] status = "all" -> IF failed THEN "all" ELSE "some"
      [] status = "none" -> IF failed THEN "some" ELSE "none"
      [] OTHER -> "some"

\* one more call of the operation, failed or answered
Counted(op, outcome, failures) ==
    /\ calls' = [calls EXCEPT ![op] = @ + 1]
    /\ faults' = [faults EXCEPT ![op] = FaultStatus(@, outcome \in failures)]

\* run_discovery(entity_type, context), up to the first agent call of discover()
RunDiscovery ==
    /\ entry = "run_discovery"
    /\ ui.pc = "new"
    /\ \E built \in {run_discovery(ui, Env)} :
          /\ run' = IF built.pc = "constructed" THEN start_discover(run, Env, score_cache)
                    ELSE run
          /\ ui' = runner_after(built, entry, run')
    /\ UNCHANGED <<entry, orch, run_context, target_count, score_cache, calls, faults, notRun>>

\* CustomerDiscovery(agent, search_engine, query_builder) or
\* PartnerDiscovery(agent, search_engine, query_builder, scorer, rationale_gen)
ConstructDirect ==
    /\ entry = "direct"
    /\ ui.pc = "new"
    /\ ui' = construct(ui, orch,
                       IF orch = "customer" THEN CUSTOMER_CTOR_ARGS ELSE PARTNER_CTOR_ARGS)
    /\ UNCHANGED <<entry, orch, run_context, target_count, run, score_cache, calls, faults, notRun>>

\* discovery.discover(context, target_count=...) up to its first agent call
Discover ==
    /\ entry = "direct"
    /\ ui.pc = "constructed"
    /\ run.pc = "new"
    /\ run' = start_discover(run, Env, score_cache)
    /\ ui' = runner_after(ui, entry, run')
    /\ UNCHANGED <<entry, orch, run_context, target_count, score_cache, calls, faults, notRun>>

\* agent call "web_search" of one query
SearchCall ==
    /\ run.pc = "search"
    /\ \E outcome \in SearchOutcomes :
          /\ Len(run.all_results) + Len(search_one("", outcome)) <= MaxResults
          /\ run' = after_search_call(run, Env, score_cache, outcome)
          /\ Counted("search", outcome, SearchFailures)
    /\ ui' = runner_after(ui, entry, run')
    /\ UNCHANGED <<entry, orch, run_context, target_count, score_cache, notRun>>

\* agent call "parse_company_info" of one search result
ParseCall ==
    /\ run.pc = "parse"
    /\ \E outcome \in ParseOutcomes :
          /\ run' = after_parse_call(run, Env, score_cache, outcome)
          /\ Counted("parse", outcome, ParseFailures)
    /\ ui' = runner_after(ui, entry, run')
    /\ UNCHANGED <<entry, orch, run_context, target_count, score_cache, notRun>>

\* agent call "score_customer_relevance" / "score_partner_relevance"
RelevanceCall ==
    /\ run.pc = "relevance"
    /\ \E outcome \in RelevanceOutcomes :
          /\ \E r \in {after_relevance_call(run, Env, score_cache, outcome)} :
                /\ run' = r.run
                /\ score_cache' = r.cache
          /\ Counted("relevance", outcome, RelevanceFailures)
    /\ ui' = runner_after(ui, entry, run')
    /\ UNCHANGED <<entry, orch, run_context, target_count, notRun>>

\* agent call "calculate_relevance" of MatchScorer.score_match
ScoreCall ==
    /\ run.pc = "score"
    /\ \E outcome \in ScoreOutcomes :
          /\ run' = after_score_call(run, Env, outcome)
          /\ Counted("score", outcome, ScoreFailures)
    /\ ui' = runner_after(ui, entry, run')
    /\ UNCHANGED <<entry, orch, run_context, target_count, score_cache, notRun>>

\* agent call "enrich_company" / "enrich_partner"
EnrichCall ==
    /\ run.pc = "enrich"
    /\ \E outcome \in EnrichOutcomes :
          /\ run' = after_enrich_call(run, Env, outcome)
          /\ Counted("enrich", outcome, EnrichFailures)
    /\ ui' = runner_after(ui, entry, run')
    /\ UNCHANGED <<entry, orch, run_context, target_count, score_cache, notRun>>

\* agent call "generate_partner_rationale"
RationaleCall ==
    /\ run.pc = "rationale"
    /\ \E outcome \in RationaleOutcomes :
          /\ run' = after_rationale_call(run, Env, outcome)
          /\ Counted("rationale", outcome, RationaleFailures)
    /\ ui' = runner_after(ui, entry, run')
    /\ UNCHANGED <<entry, orch, run_context, target_count, score_cache, notRun>>

Next ==
    \/ RunDiscovery
    \/ ConstructDirect
    \/ Discover
    \/ SearchCall
    \/ ParseCall
    \/ RelevanceCall
    \/ ScoreCall
    \/ EnrichCall
    \/ RationaleCall

Spec == Init /\ [][Next]_vars

(***************************************************************************)
(* RelevanceScorer specification: one scorer object, its operations called *)
(* in any order on drawn arguments, the agent answering as drawn.          *)
(***************************************************************************)
MaxBatch == 3

AcmeCompany ==
    CompanyInfo("Acme Corp", "https://acme.com", <<"Berlin">>, "Medium",
                "CRM software for SaaS teams", <<"https://acme.com">>)
AcmeUpperCompany ==
    CompanyInfo("ACME CORP", "HTTPS://ACME.COM", <<>>, "Large", "", <<>>)
BetaCompany ==
    CompanyInfo("Beta Labs", "https://beta.io", <<>>, "Unknown", "Data pipelines", <<>>)

RelCompanies == {AcmeCompany, AcmeUpperCompany, BetaCompany}

RelContexts == {Profile, [Profile EXCEPT !.industry = "SAAS"]}

\* texts handed to _parse_score
RelResponses ==
    {RelHighJson, RelMidJson, RelLowJson, RelNullJson, RelNoScoreJson, RelOverJson,
     RelNegativeJson, RelWordJson, RelTextJson, RelListJson,
     "The answer is " \o RelMidJson \o " as computed",
     RelHighJson \o " (see {notes})",
     "Relevance {approx}: 0.9",
     "Rated 3.7 out of 5", "Score: 0.7", "1.5 or 0.3", "0.855", ".5", "10", "1", "0",
     "I think 0 is right", "The score is 0.6.", "no idea", "", "{}"}

\* what the agent does when asked for a relevance score
RelAgentOutcomes ==
    {AgentDown, Returns(RelHighJson), Returns(RelNullJson), Returns("no idea")}

\* the candidates of a batch, in the order they are handed over
Roster == <<BetaCompany, AcmeUpperCompany, AcmeCompany>>

\* the first n of them, for n up to MaxBatch
RelBatches == {SubSeq(Roster, 1, n) : n \in 0..Min(MaxBatch, Len(Roster))}

\* the key the claims speak of
CacheTriple(company, context, entity_type) ==
    <<entity_type, Lower(company.name), Lower(context.industry)>>

InitRel ==
    /\ rel_cache = <<>>
    /\ rel_call = [op |-> "new"]
    /\ rel_obtained = <<>>
    /\ QBOff /\ RatOff /\ FltOff /\ RunOff /\ MSOff /\ ResOff

\* _parse_score(response)
ParseScore ==
    /\ rel_call.op \in {"new", "idle"}
    /\ \E response \in RelResponses :
          \E parsed \in {parse_score(response)} :
             rel_call' = [op |-> "parse_score", response |-> response,
                          raised |-> parsed.raised, value |-> parsed.value]
    /\ UNCHANGED <<rel_cache, rel_obtained, notRel>>

\* the scores of `obtained` and the one stored by a call that asked the agent
Obtained(obtained, triple, stored, score) ==
    IF stored
    THEN [t \in DOMAIN obtained \cup {triple} |-> IF t = triple THEN score ELSE obtained[t]]
    ELSE obtained

\* score_customer_relevance(company, context) / score_partner_relevance(...)
ScoreRelevance ==
    /\ rel_call.op \in {"new", "idle"}
    /\ \E company \in RelCompanies, context \in RelContexts,
          entity_type \in {"customer", "partner"}, outcome \in RelAgentOutcomes :
          \E r \in {score_with_cache(rel_cache, company, context, entity_type, outcome)} :
             /\ r.agent_calls = 0 => outcome = AgentDown
             /\ rel_cache' = r.cache
             /\ rel_call' = [op |-> "score", company |-> company, context |-> context,
                             entity_type |-> entity_type,
                             outcome |-> IF r.agent_calls = 0 THEN None ELSE Some(outcome),
                             agent_calls |-> r.agent_calls,
                             raised |-> "", score |-> r.score]
             /\ rel_obtained' = Obtained(rel_obtained,
                                         CacheTriple(company, context, entity_type),
                                         r.cache # rel_cache, r.score)
    /\ UNCHANGED notRel

\* `obtained` after a batch: a candidate whose score was stored had not been
\* stored before, in this batch or earlier
ObtainedInBatch(obtained, r, context, entity_type) ==
    LET Triple(i) == CacheTriple(r.unsorted[i].company, context, ScoredAs(entity_type))
        stored == {i \in 1..Len(r.unsorted) : r.asked[i].stored}
    IN [t \in DOMAIN obtained \cup {Triple(i) : i \in stored} |->
           IF \E i \in stored : Triple(i) = t
           THEN r.unsorted[CHOOSE i \in stored : Triple(i) = t].score
           ELSE obtained[t]]

\* batch_score(companies, context, entity_type)
BatchScore ==
    /\ rel_call.op \in {"new", "idle"}
    /\ \E companies \in RelBatches, entity_type \in {"customer", "partner", "vendor"},
          outcomes \in [1..MaxBatch -> RelAgentOutcomes \ {Returns(RelNullJson)}] :
          \E r \in {batch_score(rel_cache, companies, Profile, entity_type, outcomes)} :
             /\ \A i \in 1..MaxBatch :
                   (i > Len(companies) \/ r.asked[i].agent_calls = 0) =>
                       outcomes[i] = AgentDown
             /\ rel_cache' = r.cache
             /\ rel_call' = [op |-> "batch_score", companies |-> companies,
                             context |-> Profile, entity_type |-> entity_type,
                             raised |-> r.raised, scored |-> r.scored,
                             unsorted |-> r.unsorted, asked |-> r.asked]
             /\ rel_obtained' = ObtainedInBatch(rel_obtained, r, Profile, entity_type)
    /\ UNCHANGED notRel

\* clear_cache() followed by get_cache_size()
ClearCache ==
    /\ rel_call.op \in {"new", "idle"}
    /\ rel_cache' = clear_cache(rel_cache)
    /\ rel_call' = [op |-> "clear_cache", size |-> get_cache_size(clear_cache(rel_cache))]
    /\ rel_obtained' = <<>>
    /\ UNCHANGED notRel

\* the call has returned (or raised) to its caller
ReturnToCaller ==
    /\ rel_call.op \notin {"new", "idle"}
    /\ rel_call' = [op |-> "idle"]
    /\ UNCHANGED <<rel_cache, rel_obtained, notRel>>

NextRel == ParseScore \/ ScoreRelevance \/ BatchScore \/ ClearCache \/ ReturnToCaller

SpecRel == InitRel /\ [][NextRel]_vars
(***************************************************************************)
(* MatchScorer and MatchScore specification: score_match, its component    *)
(* calculations and the MatchScore constructor, called one after the other *)
(* on drawn arguments, the agent answering as drawn.                       *)
(***************************************************************************)
BlankCompany == CompanyInfo("", "", <<>>, "", "", <<>>)

BerlinCompany ==
    CompanyInfo("Gamma GmbH", "https://gamma.de", <<"berlin ", "Austin, TX">>, "Enterprise",
                "SaaS analytics and CRM software for retailers", <<>>)

MSCompanies == {AcmeCompany, AcmeUpperCompany, BetaCompany, BlankCompany, BerlinCompany}

BlankProfile == BusinessContext("", <<>>, "", <<>>)

EnterpriseProfile ==
    BusinessContext("Enterprise SaaS", <<"CRM software", "analytics">>,
                    "enterprise and mid-market teams", <<"Berlin", "Germany">>)

MSContexts == {Profile, BlankProfile, EnterpriseProfile}

\* what the agent does when asked to rate the relevance from 0 to 100
MSAgentOutcomes ==
    {AgentDown, Returns("85"), Returns("about 72.5 points"), Returns("150"),
     Returns("0"), Returns("Highly relevant"), Returns("")}

MSSizes ==
    {"", "Unknown", "unknown", " Unknown ", "Small", "MEDIUM", " large ", "Enterprise",
     "Mid-size"}

MSTargetMarkets ==
    {"small business owners", "mid-market teams", "enterprise and mid-market teams",
     "global corporations", "anyone", ""}

\* constructor arguments: below, inside, at the ends of and above 0-100
MSNumbers == {Pts(-5), 0, Pts(42) + 500, Pts(100), Pts(250)}
MSComponentNumbers == {Pts(-5), Pts(42) + 500, Pts(250)}

MSConfidences == {"High", "Medium", "Low", "high", ""}

MSBreakdowns == {<<>>, [relevance |-> Pts(500)]}

\* location lists: empty, the same place in other letters, a place inside a
\* longer one, a blank entry, unrelated places
MSLocationLists ==
    {<<>>, <<"Berlin">>, <<" BERLIN ">>, <<"Berlin, Germany">>, <<"Munich", "Bern">>,
     <<"">>, <<"Austin", "Boston">>}

MSGeographies ==
    {<<>>, <<"berlin">>, <<"Germany", "Austria">>, <<"Austin, TX">>, <<"Europe">>, <<" ">>}

InitMS ==
    /\ ms_call = [op |-> "new"]
    /\ QBOff /\ RatOff /\ FltOff /\ RunOff /\ RelOff /\ ResOff

\* score_match(company, context, entity_type)
ScoreMatch ==
    /\ ms_call.op \in {"new", "idle"}
    /\ \E company \in MSCompanies, context \in MSContexts,
          entity_type \in {"customer", "partner"}, outcome \in MSAgentOutcomes :
          ms_call' = [op |-> "score_match", company |-> company, context |-> context,
                      entity_type |-> entity_type, outcome |-> outcome,
                      raised |-> "",
                      result |-> score_match(company, context, entity_type, outcome)]
    /\ UNCHANGED notMS

\* _calculate_size_fit(company_size, context)
CalculateSizeFit ==
    /\ ms_call.op \in {"new", "idle"}
    /\ \E company_size \in MSSizes, target_market \in MSTargetMarkets :
          ms_call' = [op |-> "size_fit", company_size |-> company_size,
                      target_market |-> target_market,
                      score |-> calculate_size_fit(
                                    company_size,
                                    [Profile EXCEPT !.target_market = target_market])]
    /\ UNCHANGED notMS

\* MatchScore(overall_score, ..., score_breakdown, confidence)
ConstructMatchScore ==
    /\ ms_call.op \in {"new", "idle"}
    /\ \E overall \in MSNumbers, relevance \in MSNumbers,
          geographic \in MSComponentNumbers, size \in MSComponentNumbers,
          strategic \in MSComponentNumbers,
          score_breakdown \in MSBreakdowns, conf \in MSConfidences :
          ms_call' = [op |-> "construct",
                      args |-> [overall_score |-> overall, relevance_score |-> relevance,
                                geographic_fit |-> geographic,
                                size_appropriateness |-> size,
                                strategic_alignment |-> strategic,
                                score_breakdown |-> score_breakdown, confidence |-> conf],
                      result |-> post_init(overall, relevance, geographic, size, strategic,
                                           score_breakdown, conf)]
    /\ UNCHANGED notMS

\* _calculate_geographic_fit(company_locations, context_geography)
CalculateGeographicFit ==
    /\ ms_call.op \in {"new", "idle"}
    /\ \E company_locations \in MSLocationLists, context_geography \in MSGeographies :
          ms_call' = [op |-> "geographic_fit", company_locations |-> company_locations,
                      context_geography |-> context_geography,
                      score |-> calculate_geographic_fit(company_locations,
                                                         context_geography)]
    /\ UNCHANGED notMS

\* _determine_confidence(company, context), each counted field drawn empty or not
DetermineConfidence ==
    /\ ms_call.op \in {"new", "idle"}
    /\ \E name \in {"", "Acme Corp"}, description \in {"", "CRM software"},
          locations \in {<<>>, <<"Berlin">>},
          size_estimate \in {"", "Unknown", "UNKNOWN", "Small"},
          industry \in {"", "SaaS"}, products_services \in {<<>>, <<"CRM software">>},
          target_market \in {"", "small business owners"},
          geography \in {<<>>, <<"Austin">>} :
          \E company \in {CompanyInfo(name, "", locations, size_estimate, description, <<>>)},
             context \in {BusinessContext(industry, products_services, target_market,
                                          geography)} :
             ms_call' = [op |-> "confidence", company |-> company, context |-> context,
                         confidence |-> determine_confidence(company, context)]
    /\ UNCHANGED notMS

\* the call has returned to its caller
MSReturn ==
    /\ ms_call.op \notin {"new", "idle"}
    /\ ms_call' = [op |-> "idle"]
    /\ UNCHANGED notMS

NextMS ==
    \/ ScoreMatch \/ CalculateSizeFit \/ CalculateGeographicFit \/ DetermineConfidence
    \/ ConstructMatchScore \/ MSReturn

SpecMS == InitMS /\ [][NextMS]_vars

(***************************************************************************)
(* DiscoveryResult and CompanyInfo specification: one result object whose  *)
(* list of companies is given at construction, extended by add_company and *)
(* deduplicated in place; the parser's deduplicate_companies applied to    *)
(* that list; records compared and hashed; and a company enriched by an    *)
(* orchestrator.                                                           *)
(***************************************************************************)
MaxList == 3

\* the same site as Acme Corp under another name
AcmeMirror == CompanyInfo("Acme Mirror", "https://acme.com", <<>>, "Small", "", <<>>)

\* two records whose website is not known, one of them named as the mirror
GammaCompany == CompanyInfo("Gamma", "", <<>>, "Unknown", "", <<>>)
MirrorUnlisted == CompanyInfo("ACME MIRROR", "", <<>>, "Unknown", "", <<>>)

ResCompanies == {AcmeCompany, AcmeUpperCompany, AcmeMirror, GammaCompany, MirrorUnlisted}

RECURSIVE ListsUpTo(_)
ListsUpTo(n) ==
    IF n = 0 THEN {<<>>}
    ELSE ListsUpTo(n - 1) \cup
         {Append(l, c) : l \in {k \in ListsUpTo(n - 1) : Len(k) = n - 1}, c \in ResCompanies}

ResLists == ListsUpTo(MaxList)

InitRes ==
    /\ res_companies = <<>>
    /\ res_call = [op |-> "new"]
    /\ QBOff /\ RatOff /\ FltOff /\ RunOff /\ RelOff /\ MSOff

\* DiscoveryResult(companies=...)
ConstructResult ==
    /\ res_call.op \in {"new", "idle"}
    /\ \E companies \in ResLists :
          /\ res_companies' = companies
          /\ res_call' = [op |-> "construct", companies |-> companies]
    /\ UNCHANGED notRes

\* result.add_company(company)
AddCompany ==
    /\ res_call.op \in {"new", "idle"}
    /\ Len(res_companies) < MaxList
    /\ \E company \in ResCompanies :
          /\ res_companies' = add_company(res_companies, company)
          /\ res_call' = [op |-> "add_company", company |-> company,
                          before |-> res_companies,
                          in_set |-> InSet(company, res_companies)]
    /\ UNCHANGED notRes

\* result.deduplicate_companies()
DeduplicateResult ==
    /\ res_call.op \in {"new", "idle"}
    /\ res_companies' = deduplicate_companies(res_companies)
    /\ res_call' = [op |-> "deduplicate", input |-> res_companies,
                    output |-> deduplicate_companies(res_companies)]
    /\ UNCHANGED notRes

\* SearchResultParser.deduplicate_companies(result.companies)
DeduplicateParsed ==
    /\ res_call.op \in {"new", "idle"}
    /\ res_call' = [op |-> "parser_deduplicate", input |-> res_companies,
                    output |-> deduplicate_companies(res_companies)]
    /\ UNCHANGED <<res_companies, notRes>>

\* a == b, b == c, a == c and the three hashes
CompareCompanies ==
    /\ res_call.op \in {"new", "idle"}
    /\ \E a \in ResCompanies, b \in ResCompanies, c \in ResCompanies :
          res_call' = [op |-> "compare", a |-> a, b |-> b, c |-> c,
                       eq_ab |-> CompanyEq(a, b), eq_bc |-> CompanyEq(b, c),
                       eq_ac |-> CompanyEq(a, c),
                       hash_a |-> CompanyHash(a), hash_b |-> CompanyHash(b)]
    /\ UNCHANGED <<res_companies, notRes>>

\* a partner as it reaches Step 5: scored, and here also explained
ScoredAcme ==
    [AcmeCompany EXCEPT
        !.match_score = Some(MatchScore(Pts(80), Pts(90), Pts(70), Pts(75), Pts(85), "High")),
        !.rationale = Some(create_fallback_rationale(
                          AcmeCompany,
                          MatchScore(Pts(80), Pts(90), Pts(70), Pts(75), Pts(85), "High"),
                          "partner"))]

EnrichedCompanies == ResCompanies \cup {ScoredAcme}

EnrichResponses ==
    {AgentDown, Returns("Nothing found."), Returns("{not json}"), Returns(ParseEmptyJson),
     Returns(EnrichSizeJson), Returns(EnrichFullJson),
     Returns("Here is what I found:\n" \o EnrichFullJson)}

\* discovery._enrich_company_info(company) / discovery._enrich_partner_info(company):
\* the company as the caller sees it afterwards, and the object returned
EnrichCompany ==
    /\ res_call.op \in {"new", "idle"}
    /\ \E orchestrator \in {"customer", "partner"}, company \in EnrichedCompanies,
          outcome \in EnrichResponses :
          \E enriched \in {enrich_info(company, outcome)} :
              res_call' = [op |-> "enrich", orchestrator |-> orchestrator,
                           before |-> company, outcome |-> outcome,
                           after |-> enriched, returned |-> enriched]
    /\ UNCHANGED <<res_companies, notRes>>

\* the call has returned to its caller
ResReturn ==
    /\ res_call.op \notin {"new", "idle"}
    /\ res_call' = [op |-> "idle"]
    /\ UNCHANGED <<res_companies, notRes>>

NextRes ==
    \/ ConstructResult \/ AddCompany \/ DeduplicateResult \/ DeduplicateParsed
    \/ CompareCompanies \/ EnrichCompany \/ ResReturn

SpecRes == InitRes /\ [][NextRes]_vars


(***************************************************************************)
(* Discovery with many candidates: discover() from the moment              *)
(* search_and_parse has returned its candidates, on an orchestrator whose  *)
(* RelevanceScorer still holds the scores of an earlier run.  The answers  *)
(* of the scoring, enrichment and rationale calls are fixed by the         *)
(* position of the candidate.  More than 25 candidates need a search       *)
(* engine set to return more than 5 results per query (set_max_results).   *)
(***************************************************************************)
\* a company parsed from a response that gives its location as an object
NestedCompany == parse_company_info("https://delta.org", Returns(ParseNestedJson)).company[1]

\* the candidates search_and_parse returned, the second one possibly that company
Found(n, nested) == [i \in 1..n |-> IF nested /\ i = 2 THEN NestedCompany ELSE FltCompany(i)]

\* the relevance an earlier run obtained for candidate i
EarlierScore(i, scores) ==
    IF scores = "high" THEN 850 ELSE IF i % 3 = 0 THEN 100 ELSE RELEVANCE_THRESHOLD + i

\* _score_cache with the scores of the candidates, those not yet scored left out
WarmCache(candidates, scores, unscored, context, entity_type) ==
    LET scored == {i \in 1..Len(candidates) : i \notin unscored /\ CanJoin(candidates[i].locations)}
        KeyOf(i) == make_cache_key(candidates[i], context, entity_type)
    IN [key \in {KeyOf(i) : i \in scored} |->
           EarlierScore(CHOOSE i \in scored : KeyOf(i) = key, scores)]

TargetCounts ==
    {0, 1, PARTNER_MAX_CANDIDATES - 1, PARTNER_MAX_CANDIDATES, PARTNER_MAX_CANDIDATES + 1,
     CUSTOMER_MAX_CANDIDATES, MaxCandidates}

ScoreAnswers == <<Returns("Score: 85 out of 100"), AgentDown>>
EnrichAnswers == <<Returns(EnrichSizeJson), AgentDown, Returns("{not json}")>>
RationaleAnswers == <<Returns(RatGoodJson), AgentDown>>

\* the answer to the call for the candidate at a position
AnswerAt(answers, position) == answers[(position % Len(answers)) + 1]

InitCap ==
    /\ entry = "direct"
    /\ orch \in {"customer", "partner"}
    /\ run_context = Some(Profile)
    /\ target_count \in TargetCounts
    /\ ui = construct(NewUi, orch,
                      IF orch = "customer" THEN CUSTOMER_CTOR_ARGS ELSE PARTNER_CTOR_ARGS)
    /\ \E n \in 1..MaxCandidates, scores \in {"high", "mixed"}, unscored \in {{}, {1}},
          nested \in BOOLEAN :
          \E candidates \in {Found(n, nested)}, queries \in {build_queries(Env)} :
             \E cache \in {WarmCache(candidates, scores, unscored, Profile, orch)} :
                /\ score_cache = cache
                /\ run = AfterSearchAndParse([NewRun EXCEPT !.queries = queries],
                                             Env, cache, candidates)
                /\ calls = [NoCalls EXCEPT !.search = Len(queries), !.parse = n]
    /\ faults = [NoFaults EXCEPT !.search = "none", !.parse = "none"]
    /\ QBOff /\ RatOff /\ FltOff /\ RelOff /\ MSOff /\ ResOff

\* agent call "calculate_relevance" of MatchScorer.score_match
ScoreNext ==
    /\ run.pc = "score"
    /\ \E outcome \in {AnswerAt(ScoreAnswers, run.ti)} :
          /\ run' = after_score_call(run, Env, outcome)
          /\ Counted("score", outcome, ScoreFailures)
    /\ ui' = runner_after(ui, entry, run')
    /\ UNCHANGED <<entry, orch, run_context, target_count, score_cache, notRun>>

\* agent call "enrich_company" / "enrich_partner"
EnrichNext ==
    /\ run.pc = "enrich"
    /\ \E outcome \in {AnswerAt(EnrichAnswers, run.ti)} :
          /\ run' = after_enrich_call(run, Env, outcome)
          /\ Counted("enrich", outcome, EnrichFailures)
    /\ ui' = runner_after(ui, entry, run')
    /\ UNCHANGED <<entry, orch, run_context, target_count, score_cache, notRun>>

\* agent call "generate_partner_rationale"
RationaleNext ==
    /\ run.pc = "rationale"
    /\ \E outcome \in {AnswerAt(RationaleAnswers, run.ti)} :
          /\ run' = after_rationale_call(run, Env, outcome)
          /\ Counted("rationale", outcome, RationaleFailures)
    /\ ui' = runner_after(ui, entry, run')
    /\ UNCHANGED <<entry, orch, run_context, target_count, score_cache, notRun>>

NextCap == RelevanceCall \/ ScoreNext \/ EnrichNext \/ RationaleNext

SpecCap == InitCap /\ [][NextCap]_vars
(***************************************************************************)
(* Claims about the QueryBuilder (checked under SpecQB)                    *)
(***************************************************************************)
QUERY_LENGTH_LIMIT == 150

BuildRan == qb_op \in {"customer", "partner"}

PairwiseDistinct(list) ==
    \A i, j \in 1..Len(list) : i # j => list[i] # list[j]

\* C8: build_customer_queries and build_partner_queries each return between 3
\* and 5 query strings, all non-empty and pairwise distinct, for every profile
\* and filter map.
C8_ThreeToFiveDistinctQueries ==
    BuildRan =>
        /\ Len(qb_out) >= MIN_QUERIES /\ Len(qb_out) <= MAX_QUERIES
        /\ \A i \in 1..Len(qb_out) : qb_out[i] # ""
        /\ PairwiseDistinct(qb_out)

ShortValue(v) ==
    /\ Len(v.s) <= FieldMax
    /\ \A i \in 1..Len(v.l) : Len(v.l[i]) <= FieldMax

\* every text field of the profile and of the filter map has at most FieldMax
\* characters, and the size and partnership_type filters are not lists
ShortInputs ==
    /\ Len(qb_context.industry) <= FieldMax
    /\ Len(qb_context.target_market) <= FieldMax
    /\ \A i \in 1..Len(qb_context.products_services) :
           Len(qb_context.products_services[i]) <= FieldMax
    /\ \A i \in 1..Len(qb_context.geography) : Len(qb_context.geography[i]) <= FieldMax
    /\ ShortValue(qb_filters.geography) /\ ShortValue(qb_filters.industry)
    /\ ShortValue(qb_filters.size) /\ ShortValue(qb_filters.partnership_type)
    /\ qb_filters.size.t # "list" /\ qb_filters.partnership_type.t # "list"

C10_NoExceptionNeverEmpty ==
    /\ qb_raised = ""
    /\ BuildRan => qb_out # <<>>


RefineRan == qb_op = "refine" /\ qb_raised = ""

\* the geography and industry filters are strings or absent
StringFilters == qb_filters.geography.t # "list" /\ qb_filters.industry.t # "list"

\* C11 as stated: refine_query(q, {}) returns q unchanged, and with a
\* non-empty geography and/or industry string the refined query contains q,
\* the geography text and the industry text (compared case-insensitively).
C11_RefinedContainsBaseAndFilters ==
    (RefineRan /\ StringFilters) =>
        /\ NoFilters(qb_filters) => qb_out[1] = qb_base
        /\ Contains(qb_out[1], qb_base)
        /\ Truthy(qb_filters.geography) =>
              Contains(Lower(qb_out[1]), Lower(qb_filters.geography.s))
        /\ Truthy(qb_filters.industry) =>
              Contains(Lower(qb_out[1]), Lower(qb_filters.industry.s))

\* C11 amended: refine_query(q, {}) returns q unchanged; the refined query
\* always contains q and, case-insensitively, the industry string supplied;
\* it contains the geography string supplied when the lower-cased q does not
\* contain "in " (otherwise the geography is not appended).
C11_GeographyAddedUnlessInPresent ==
    (RefineRan /\ StringFilters) =>
        /\ NoFilters(qb_filters) => qb_out[1] = qb_base
        /\ Contains(qb_out[1], qb_base)
        /\ (Truthy(qb_filters.geography) /\ ~Contains(Lower(qb_base), "in ")) =>
              Contains(Lower(qb_out[1]), Lower(qb_filters.geography.s))
        /\ Truthy(qb_filters.industry) =>
              Contains(Lower(qb_out[1]), Lower(qb_filters.industry.s))

\* both filters were applied to a base query without "in "
C11_Witness ==
    /\ RefineRan
    /\ qb_base = "marketing agencies"
    /\ qb_filters.geography = StrV("Toronto")
    /\ qb_out = <<"HEALTHCARE marketing agencies in Toronto">>

(***************************************************************************)
(* Claims about the RationaleGenerator (checked under SpecRat)             *)
(***************************************************************************)
RatReturned == rat_out # None

\* the response of the agent call parsed into a Rationale
RatParsedPath ==
    /\ RatReturned
    /\ ~rat_outcome[1].raised
    /\ HasSpan(rat_outcome[1].text, "{", "}")
    /\ JsonLoads(Span(rat_outcome[1].text, "{", "}")).ok

\* C1: whatever the agent call does (raise, return text without a JSON
\* object, return a JSON object with or without a 'recommendation' of its
\* own), the Rationale returned by generate_rationale recommends
\* 'Strong Match' when overall_score >= 80, 'Good Match' when
\* 60 <= overall_score < 80 and 'Fair Match' when overall_score < 60.
C1_RecommendationFollowsScore ==
    RatReturned =>
        LET overall == rat_score[1].overall_score
            rec == rat_out[1].recommendation
        IN /\ (overall >= Pts(80)) => rec = "Strong Match"
           /\ (overall >= Pts(60) /\ overall < Pts(80)) => rec = "Good Match"
           /\ (overall < Pts(60)) => rec = "Fair Match"

\* a parsed response that carries 'Fair Match' for a company scored 80 or more
C1_Witness ==
    /\ RatParsedPath
    /\ rat_outcome[1].text = RatFairJson
    /\ rat_score[1].overall_score >= Pts(80)
    /\ rat_out[1].recommendation = "Strong Match"
    /\ rat_out[1].summary = "Weak fit"

\* the template rationale was returned: the agent call raised, or its
\* response has no "{...}" span, or the span is not JSON
RatFallbackPath == RatReturned /\ ~RatParsedPath

\* the key_strengths lines that begin with `label`
StrengthLines(label) ==
    {i \in 1..Len(rat_out[1].key_strengths) : StartsWith(rat_out[1].key_strengths[i], label)}

\* C23: generate_rationale raises nothing: when the agent call raises, or
\* the response has no "{...}" span, or the span is not JSON, it returns the
\* template rationale, whose key_strengths list exactly the components
\* (relevance, geographic, size, strategic) with a value >= 70, or one
\* overall-score line when there is none, and whose potential_concerns is
\* non-empty if and only if the confidence of the score is "Low".
C23_FallbackListsStrongComponents ==
    /\ (rat_outcome # None) => RatReturned
    /\ RatFallbackPath =>
          LET score == rat_score[1]
              out == rat_out[1]
              strong == {<<"High relevance score", score.relevance_score>>,
                         <<"Good geographic alignment", score.geographic_fit>>,
                         <<"Appropriate company size", score.size_appropriateness>>,
                         <<"Strong strategic fit", score.strategic_alignment>>}
              listed == {c \in strong : c[2] >= Pts(70)}
          IN /\ out.key_strengths # <<>>
             /\ \A c \in strong :
                   Cardinality(StrengthLines(c[1])) = IF c \in listed THEN 1 ELSE 0
             /\ Len(out.key_strengths) = IF listed = {} THEN 1 ELSE Cardinality(listed)
             /\ listed = {} => StrengthLines("Overall match score of") = {1}
             /\ (out.potential_concerns # <<>>) <=> (score.confidence = "Low")

\* the agent answered text that is not JSON for a score whose size is exactly
\* 70 and whose strategic alignment is just below: size is listed, strategic
\* is not, and medium confidence leaves no concern
C23_Witness ==
    /\ RatFallbackPath
    /\ rat_outcome[1] = Returns("{not json}")
    /\ rat_score[1].size_appropriateness = Pts(70)
    /\ rat_score[1].strategic_alignment = Pts(70) - 1
    /\ rat_score[1].confidence = "Medium"
    /\ StrengthLines("Appropriate company size") # {}
    /\ StrengthLines("Strong strategic fit") = {}
    /\ rat_out[1].potential_concerns = <<>>

(***************************************************************************)
(* Claims about the relevance filter (checked under SpecFlt)               *)
(***************************************************************************)
\* the threshold the docstrings and the prompt state, in thousandths
DOCUMENTED_THRESHOLD == 600

\* C7: the customer relevance filter keeps a candidate, before the cap on
\* the number of candidates, if and only if its relevance is >= 0.6.
C7_CustomerFilterKeepsFromPointSix ==
    (flt_entity = "customer" /\ flt_op = "returned") =>
        \A i \in 1..Len(flt_scores) :
            (FltCompany(i) \in Range(flt_passed)) <=> (flt_scores[i] >= DOCUMENTED_THRESHOLD)

(***************************************************************************)
(* Claims about discover() and run_discovery (checked under Spec)          *)
(***************************************************************************)
Returned == run.pc = "done"
Raised == run.pc = "raised"
Result == run.result[1]

\* the company as it was before match_score and rationale were attached
Bare(company) == [company EXCEPT !.match_score = None, !.rationale = None]

AllFailed(op) == faults[op] = "all"

NonIncreasing(companies) ==
    \A i \in 1..(Len(companies) - 1) :
        companies[i].match_score[1].overall_score
            >= companies[i + 1].match_score[1].overall_score

\* what a returned result carries where every call of an operation failed:
\* no company without a search result or a parsed company, every candidate
\* kept at the neutral relevance 0.5, the text-similarity relevance in the
\* match score, the company left as it was parsed, the template rationale
FallbackResult ==
    /\ Result.entity_type = orch
    /\ (AllFailed("search") \/ AllFailed("parse")) => Result.companies = <<>>
    /\ AllFailed("relevance") => run.relevant_candidates = run.candidates
    /\ \A i \in 1..Len(Result.companies) :
          LET company == Result.companies[i]
          IN /\ AllFailed("enrich") =>
                    company.size_estimate \in {"Unknown", "Medium", "Large"}
             /\ (AllFailed("score") /\ AllFailed("enrich")) =>
                    company.match_score[1] =
                        score_match(Bare(company), run_context[1], "partner", AgentDown)
             /\ AllFailed("rationale") =>
                    company.rationale[1] =
                        create_fallback_rationale(
                            [company EXCEPT !.rationale = None],
                            company.match_score[1], "partner")

\* C2: whichever agent calls fail (raise, or return text that cannot be
\* used), in any combination, discover() called with a context does not
\* raise: it returns a DiscoveryResult built from the fallbacks of the
\* operations whose calls failed.
C2_CallFailuresEndInFallbacks ==
    /\ Raised => run_context = None
    /\ Returned => FallbackResult

\* C3: when the search step yields no candidate, or the relevance filter
\* leaves none, discover() returns at once a DiscoveryResult with the
\* orchestrator's entity_type, no company and the queries joined with ", ";
\* no scoring, enrichment or rationale call is made (and no relevance call
\* when there was no candidate).
C3_NothingFoundReturnsEmptyResult ==
    (run.candidates = Some(<<>>) \/ run.relevant_candidates = Some(<<>>)) =>
        /\ Returned
        /\ run.error = None
        /\ Result.entity_type = orch
        /\ Result.companies = <<>>
        /\ Result.query_used = Join(run.queries, ", ")
        /\ calls.score = 0 /\ calls.enrich = 0 /\ calls.rationale = 0
        /\ run.candidates = Some(<<>>) => calls.relevance = 0
        /\ calls.search = Len(run.queries)

\* candidates were found and scored for relevance, and none passed
C3_Witness ==
    /\ Returned
    /\ run.candidates # Some(<<>>)
    /\ run.relevant_candidates = Some(<<>>)
    /\ calls.relevance = 2
    /\ Result.companies = <<>>
    /\ Result.query_used # ""

\* a partner run got past the relevance filter
ReachedScoring ==
    /\ orch = "partner"
    /\ run.relevant_candidates # None
    /\ run.relevant_candidates # Some(<<>>)

\* C4: a partner run that reaches the scoring stage returns companies that
\* all have a match_score and a rationale, in non-increasing order of
\* overall_score, with scored = True and avg_score = the sum of their
\* overall_score over their number (0.0 when no company is returned).
C4_PartnerResultScoredSortedAveraged ==
    (Returned /\ ReachedScoring) =>
        /\ \A i \in 1..Len(Result.companies) :
              /\ Result.companies[i].match_score # None
              /\ Result.companies[i].rationale # None
        /\ NonIncreasing(Result.companies)
        /\ Result.scored
        /\ Result.companies # <<>> =>
              Result.avg_score = Mean(SumOverall(Result.companies), Len(Result.companies))
        /\ Result.companies = <<>> => Result.avg_score = ZeroMean

\* two partners returned, the one scored second first
C4_Witness ==
    /\ Returned /\ ReachedScoring
    /\ Len(Result.companies) = 2
    /\ Result.companies[1].name = run.relevant_candidates[1][2].name
    /\ Result.companies[1].match_score[1].overall_score
          > Result.companies[2].match_score[1].overall_score
    /\ Result.avg_score.den = 2

\* C5: CustomerDiscovery is constructed with (agent, search_engine,
\* query_builder, scorer, rationale_gen), as run_discovery('Customer', ...)
\* does, and a customer run that reaches the end returns companies that all
\* have a match_score and a rationale, sorted by overall_score descending,
\* with scored = True and avg_score their mean overall_score.
C5_CustomerRunnerScoresAndSorts ==
    /\ (orch = "customer" /\ entry = "run_discovery" /\ run_context # None /\ ui.pc # "new") =>
          /\ ui.pc # "raised"
          /\ ui.ctor_args = RUNNER_CTOR_ARGS
    /\ (orch = "customer" /\ Returned /\ Result.companies # <<>>) =>
          /\ \A i \in 1..Len(Result.companies) :
                /\ Result.companies[i].match_score # None
                /\ Result.companies[i].rationale # None
          /\ Result.scored
          /\ Result.avg_score = Mean(SumOverall(Result.companies), Len(Result.companies))

\* C6: discover() raises only ValueError - when context is None, before any
\* query is built and any call made - and RuntimeError, whose message
\* contains the message of the exception it wraps; when it raises, no
\* DiscoveryResult is returned.
C6_OnlyValueErrorAndRuntimeError ==
    /\ Raised =>
          /\ run.result = None
          /\ run.error # None
          /\ run.error[1].type \in {"ValueError", "RuntimeError"}
          /\ run.error[1].type = "ValueError" =>
                /\ run_context = None
                /\ run.queries = <<>>
                /\ calls = NoCalls
          /\ run.error[1].type = "RuntimeError" =>
                /\ run_context # None
                /\ run.error[1].cause # ""
                /\ Contains(run.error[1].msg, run.error[1].cause)
                /\ Contains(run.error[1].msg, NoLower(JNull))
    /\ (run_context = None /\ run.pc # "new") => (Raised /\ run.error[1].type = "ValueError")

\* a parsed company with a null name: the AttributeError comes out wrapped
C6_Witness ==
    /\ Raised
    /\ orch = "partner"
    /\ run.error[1].type = "RuntimeError"
    /\ run.error[1].msg = "Partner discovery failed: Search and parse operation failed: "
                          \o "'NoneType' object has no attribute 'lower'"
    /\ calls.parse = 2

\* the parts of a match score that score_match computes without the agent
Deterministic(score) ==
    <<score.geographic_fit, score.size_appropriateness, score.strategic_alignment,
      score.confidence>>

\* C28: every company of a result returned by PartnerDiscovery.discover has
\* a match_score whose geographic_fit, size_appropriateness,
\* strategic_alignment and confidence are the values score_match computes
\* for the company as it is returned (its description, locations and
\* size_estimate after enrichment).
C28_MatchScoreFitsReturnedRecord ==
    (Returned /\ orch = "partner") =>
        \A i \in 1..Len(Result.companies) :
            LET company == Result.companies[i]
            IN company.match_score # None =>
                   Deterministic(company.match_score[1]) =
                       Deterministic(score_match(Bare(company), run_context[1], "partner",
                                                 AgentDown))

\* the step is an agent call of the operation
Calls(op) == calls'[op] = calls[op] + 1

NoCallYet(ops) == \A op \in ops : calls[op] = 0

\* the step in which discover() returns the result of a complete run
Completes == run.pc # "done" /\ run'.pc = "done" /\ run'.exit = "complete"

Names(companies) == [i \in 1..Len(companies) |-> companies[i].name]

SameCompanies(a, b) ==
    /\ Len(a) = Len(b)
    /\ \A i \in 1..Len(a) :
          Cardinality({j \in 1..Len(a) : a[j] = a[i]})
              = Cardinality({j \in 1..Len(b) : b[j] = a[i]})

PartnerStep ==
    /\ Calls("search") =>
          /\ run.queries # <<>>
          /\ NoCallYet({"parse", "relevance", "score", "enrich", "rationale"})
    /\ Calls("parse") =>
          /\ calls.search = Len(run.queries)
          /\ NoCallYet({"relevance", "score", "enrich", "rationale"})
    /\ Calls("relevance") =>
          /\ run.candidates # None
          /\ NoCallYet({"score", "enrich", "rationale"})
    /\ Calls("score") =>
          /\ run.relevant_candidates # None
          /\ run.top_candidates = Take(run.relevant_candidates[1], target_count)
          /\ calls.score < Len(run.top_candidates)
          /\ NoCallYet({"enrich", "rationale"})
    /\ Calls("enrich") =>
          /\ calls.score = Len(run.top_candidates)
          /\ calls.enrich < Len(run.top_candidates)
          /\ NoCallYet({"rationale"})
    /\ Calls("rationale") =>
          /\ calls.enrich = Len(run.top_candidates)
          /\ calls.rationale < Len(run.top_candidates)
    /\ (Calls("score") \/ Calls("enrich") \/ Calls("rationale")) =>
          Names(run.top_candidates) = Names(Take(run.relevant_candidates[1], target_count))
    /\ Completes =>
          /\ calls'.score = Len(run.top_candidates)
          /\ calls'.enrich = Len(run.top_candidates)
          /\ calls'.rationale = Len(run.top_candidates)
          /\ \A i \in 1..Len(run'.result[1].companies) :
                run'.result[1].companies[i].rationale # None
          /\ SameCompanies(Names(run'.result[1].companies), Names(run.top_candidates))
          /\ NonIncreasing(run'.result[1].companies)

\* C26: PartnerDiscovery.discover runs its stages strictly in the order
\* build queries, search, relevance filter, score_match for all top
\* candidates, enrichment of all of them, rationale for all of them, sort:
\* no enrichment call before the last score_match call, no rationale call
\* before the last enrichment, and the list is sorted once, in the step that
\* returns, when every company has its rationale.
C26_PartnerStagesInOrder == [][orch = "partner" => PartnerStep]_vars

\* two partners scored, then enriched, then explained, and returned with the
\* second candidate first
C26_Witness ==
    /\ orch = "partner"
    /\ Returned /\ run.exit = "complete"
    /\ calls.score = 2 /\ calls.enrich = 2 /\ calls.rationale = 2
    /\ Names(Result.companies) = <<run.relevant_candidates[1][2].name,
                                   run.relevant_candidates[1][1].name>>
(***************************************************************************)
(* Claims about the relevance scorer (checked under SpecRel)               *)
(***************************************************************************)
ParseRan == rel_call.op = "parse_score"

\* the numeric "score" field of the JSON object in the response, if the
\* response holds a JSON object with one
JsonNumericScore(response) ==
    IF ~HasSpan(response, "{", "}") THEN [found |-> FALSE, value |-> 0]
    ELSE LET loaded == JsonLoads(Span(response, "{", "}"))
         IN IF loaded.ok /\ "score" \in DOMAIN loaded.value.d
                         /\ loaded.value.d["score"].j = "num"
            THEN [found |-> TRUE, value |-> loaded.value.d["score"].n]
            ELSE [found |-> FALSE, value |-> 0]

\* C12: _parse_score follows the fallback chain: the numeric "score" of a
\* JSON object in the response, clamped into [0, 1]; otherwise the first
\* decimal in [0, 1] of the text; the neutral 0.5 only if neither is found.
C12_ParseFollowsFallbackChain ==
    (ParseRan /\ rel_call.raised = "") =>
        rel_call.value =
            IF JsonNumericScore(rel_call.response).found
            THEN Max(0, Min(MAX_RELEVANCE, JsonNumericScore(rel_call.response).value))
            ELSE IF FirstScoreInRange(rel_call.response, 1).found
            THEN FirstScoreInRange(rel_call.response, 1).value
            ELSE NEUTRAL_RELEVANCE

\* C13: _parse_score raises for no response string, a JSON object with a
\* null, list or non-numeric "score" included, and its result is in [0, 1].
C13_ParseNeverRaises ==
    ParseRan => /\ rel_call.raised = ""
                /\ rel_call.value \in 0..MAX_RELEVANCE

ScoreRan == rel_call.op = "score"

C15_CachedUntilCleared ==
    [][/\ rel_call'.op = "score" =>
            LET triple == CacheTriple(rel_call'.company, rel_call'.context,
                                      rel_call'.entity_type)
            IN IF triple \in DOMAIN rel_obtained
               THEN /\ rel_call'.agent_calls = 0
                    /\ rel_call'.score = rel_obtained[triple]
               ELSE rel_call'.agent_calls = 1
       /\ rel_call'.op = "clear_cache" => rel_call'.size = 0]_vars

\* a score obtained for "Acme Corp" is returned, without a model call, to a
\* call that spells the name and the industry in capitals, while the partner
\* score of the same candidate is a different one
C15_Witness ==
    /\ ScoreRan
    /\ rel_call.agent_calls = 0
    /\ rel_call.company = AcmeUpperCompany
    /\ rel_call.context.industry = "SAAS"
    /\ rel_call.entity_type = "customer"
    /\ <<"partner", "acme corp", "saas">> \in DOMAIN rel_obtained
    /\ rel_call.score # rel_obtained[<<"partner", "acme corp", "saas">>]

BatchRan == rel_call.op = "batch_score"

\* the position in the input of the i-th returned pair
InputPosition(i) ==
    CHOOSE k \in 1..Len(rel_call.companies) : rel_call.companies[k] = rel_call.scored[i].company

\* C16: for every list of candidates, the empty one included, batch_score
\* raises nothing and returns one (candidate, score) pair per input
\* candidate, in non-increasing score order, candidates of equal score in
\* their input order; a candidate whose scoring failed has score 0.5.
C16_BatchScoreTotalSortedStable ==
    BatchRan =>
        /\ rel_call.raised = ""
        /\ Len(rel_call.scored) = Len(rel_call.companies)
        /\ {rel_call.scored[i].company : i \in 1..Len(rel_call.scored)}
              = Range(rel_call.companies)
        /\ \A i \in 1..Len(rel_call.scored) - 1 :
              /\ rel_call.scored[i].score >= rel_call.scored[i + 1].score
              /\ rel_call.scored[i].score = rel_call.scored[i + 1].score
                    => InputPosition(i) < InputPosition(i + 1)
        /\ \A k \in 1..Len(rel_call.unsorted) :
              (rel_call.asked[k].agent_calls = 1 /\ ~rel_call.asked[k].stored)
                  => rel_call.unsorted[k].score = NEUTRAL_RELEVANCE

\* the cache key of the last score call
ScoreCallKey == make_cache_key(rel_call.company, rel_call.context, rel_call.entity_type)

\* C29: a neutral 0.5 returned because the model call raised is not written
\* to the cache: the failed call leaves the cache unchanged and the next
\* call with the same key calls the model again (a call whose key is not in
\* the cache always does); a 0.5 produced by a response that was received
\* but cannot be parsed is cached.
C29_OnlyReceivedScoresAreCached ==
    [][rel_call'.op = "score" =>
          /\ rel_call'.outcome = Some(AgentDown) =>
                /\ rel_call'.score = NEUTRAL_RELEVANCE
                /\ rel_cache' = rel_cache
                /\ ScoreCallKey' \notin DOMAIN rel_cache'
          /\ ScoreCallKey' \notin DOMAIN rel_cache => rel_call'.agent_calls = 1
          /\ (/\ rel_call'.agent_calls = 1
              /\ rel_call'.outcome # Some(AgentDown)
              /\ rel_call'.score = NEUTRAL_RELEVANCE) =>
                /\ ScoreCallKey' \in DOMAIN rel_cache'
                /\ rel_cache'[ScoreCallKey'] = NEUTRAL_RELEVANCE]_vars

(***************************************************************************)
(* Claims about the match scorer and MatchScore (checked under SpecMS)     *)
(***************************************************************************)
ScoreMatchRan == ms_call.op = "score_match"

InRange(x) == 0 <= x /\ x <= Pts(MAX_SCORE)

\* C17: score_match is total: for any candidate and profile, empty strings,
\* empty lists and size "Unknown" included, and whether the agent returns a
\* number, returns text without a number or raises, it returns a MatchScore
\* whose four components and overall_score are in [0, 100], whose confidence
\* is High, Medium or Low, and whose score_breakdown has the keys relevance,
\* geographic, size and strategic with the values of the component fields.
C17_ScoreMatchTotal ==
    ScoreMatchRan =>
        LET m == ms_call.result
        IN /\ ms_call.raised = ""
           /\ InRange(m.overall_score) /\ InRange(m.relevance_score)
           /\ InRange(m.geographic_fit) /\ InRange(m.size_appropriateness)
           /\ InRange(m.strategic_alignment)
           /\ m.confidence \in {"High", "Medium", "Low"}
           /\ DOMAIN m.score_breakdown = {"relevance", "geographic", "size", "strategic"}
           /\ m.score_breakdown.relevance = m.relevance_score
           /\ m.score_breakdown.geographic = m.geographic_fit
           /\ m.score_breakdown.size = m.size_appropriateness
           /\ m.score_breakdown.strategic = m.strategic_alignment

\* the agent answered 150 for a candidate with no data at all, and the
\* relevance is 100
C17_Witness ==
    /\ ScoreMatchRan
    /\ ms_call.company = BlankCompany
    /\ ms_call.context = BlankProfile
    /\ ms_call.outcome = Returns("150")
    /\ ms_call.result.relevance_score = Pts(100)
    /\ ms_call.result.confidence = "Low"

\* C18: the overall_score of score_match is 0.40 * relevance_score + 0.20 *
\* geographic_fit + 0.20 * size_appropriateness + 0.20 * strategic_alignment
\* of the same MatchScore (to the thousandth of a point the scores are kept in).
C18_OverallIsWeightedSum ==
    ScoreMatchRan =>
        LET m == ms_call.result
            tenfold == 4 * m.relevance_score + 2 * m.geographic_fit
                       + 2 * m.size_appropriateness + 2 * m.strategic_alignment
        IN 10 * m.overall_score <= tenfold /\ tenfold < 10 * (m.overall_score + 1)

\* the agent's 72.5 weighs 0.40 against three components that are not all
\* the same, and the sum is exact
C18_Witness ==
    /\ ScoreMatchRan
    /\ ms_call.result.relevance_score = Pts(72) + 500
    /\ ms_call.result.relevance_score # ms_call.result.geographic_fit
    /\ ms_call.result.geographic_fit # ms_call.result.size_appropriateness
    /\ 10 * ms_call.result.overall_score =
          4 * ms_call.result.relevance_score + 2 * ms_call.result.geographic_fit
          + 2 * ms_call.result.size_appropriateness + 2 * ms_call.result.strategic_alignment

ConstructRan == ms_call.op = "construct"

\* the value a numeric argument of the constructor ends with
Clamped(x) == IF x > Pts(MAX_SCORE) THEN Pts(MAX_SCORE) ELSE IF x < 0 THEN 0 ELSE x

\* C19: after construction of a MatchScore from any numbers and any
\* confidence string, the five scores are in [0, 100] (above 100 becomes 100,
\* below 0 becomes 0), confidence is High, Medium or Low (anything else
\* becomes Low), and an empty score_breakdown is filled from the four clamped
\* component fields.
C19_ConstructionClamps ==
    ConstructRan =>
        LET a == ms_call.args
            m == ms_call.result
        IN /\ m.overall_score = Clamped(a.overall_score)
           /\ m.relevance_score = Clamped(a.relevance_score)
           /\ m.geographic_fit = Clamped(a.geographic_fit)
           /\ m.size_appropriateness = Clamped(a.size_appropriateness)
           /\ m.strategic_alignment = Clamped(a.strategic_alignment)
           /\ m.confidence = IF a.confidence \in {"High", "Medium", "Low"}
                             THEN a.confidence ELSE "Low"
           /\ DOMAIN a.score_breakdown = {} =>
                 m.score_breakdown = [relevance |-> m.relevance_score,
                                      geographic |-> m.geographic_fit,
                                      size |-> m.size_appropriateness,
                                      strategic |-> m.strategic_alignment]

\* 250, -5 and "high" with no breakdown become 100, 0 and "Low", and the
\* breakdown holds the clamped values
C19_Witness ==
    /\ ConstructRan
    /\ ms_call.args.overall_score = Pts(250)
    /\ ms_call.args.relevance_score = Pts(-5)
    /\ ms_call.args.confidence = "high"
    /\ DOMAIN ms_call.args.score_breakdown = {}
    /\ ms_call.result.overall_score = Pts(100)
    /\ ms_call.result.score_breakdown.relevance = 0
    /\ ms_call.result.confidence = "Low"

SizeFitRan == ms_call.op = "size_fit"

\* the bucket a size word names, "" if it names none
SizeBucket(size) ==
    IF Strip(Lower(size)) \in {"small", "medium", "large"} THEN Strip(Lower(size)) ELSE ""

\* the target bucket read from the target market, "" if none can be inferred
TargetBucket(target_market) ==
    LET hits == {i \in 1..Len(SizeIndicators) :
                    \E w \in SizeIndicators[i].words : Contains(Lower(target_market), w)}
    IN IF hits = {} THEN "" ELSE SizeIndicators[CHOOSE i \in hits : \A k \in hits : i <= k].size

\* how many buckets apart two sizes are
BucketDistance(a, b) ==
    LET Rank(x) == CASE x = "small" -> 1 [] x = "medium" -> 2 [] x = "large" -> 3
        d == Rank(a) - Rank(b)
    IN IF d < 0 THEN -d ELSE d

\* the score of a bucket distance
DistanceScore(own, target) ==
    IF BucketDistance(own, target) = 0 THEN Pts(100)
    ELSE IF BucketDistance(own, target) = 1 THEN Pts(70)
    ELSE Pts(30)

\* C20: size fit is 50 whenever the target size cannot be inferred from the
\* target market or the candidate's size is unknown (empty, "Unknown", or
\* not mappable to small/medium/large); otherwise 100 when the buckets
\* coincide, 70 when they are one apart and 30 when they are two apart; it
\* is always one of 30, 50, 70 and 100.
C20_SizeFitByBucketDistance ==
    SizeFitRan =>
        LET own == SizeBucket(ms_call.company_size)
            target == TargetBucket(ms_call.target_market)
        IN /\ ms_call.score \in {Pts(30), Pts(50), Pts(70), Pts(100)}
           /\ ms_call.score = IF own = "" \/ target = "" THEN Pts(50)
                              ELSE DistanceScore(own, target)

\* C20, amended: size fit is 50 whenever the target size cannot be inferred
\* or the candidate's size is empty or is "unknown" in any letter case; a
\* size that, lower-cased and stripped, is none of small, medium and large
\* counts as medium; the score is then 100, 70 or 30 for buckets that
\* coincide, are one apart or are two apart; it is always one of 30, 50, 70
\* and 100.
C20_UnmappedSizeCountsAsMedium ==
    SizeFitRan =>
        LET unknown == ms_call.company_size = "" \/ Lower(ms_call.company_size) = "unknown"
            own == IF SizeBucket(ms_call.company_size) = "" THEN "medium"
                   ELSE SizeBucket(ms_call.company_size)
            target == TargetBucket(ms_call.target_market)
        IN /\ ms_call.score \in {Pts(30), Pts(50), Pts(70), Pts(100)}
           /\ ms_call.score = IF unknown \/ target = "" THEN Pts(50)
                              ELSE DistanceScore(own, target)

\* "Enterprise" is no bucket and is scored as medium: one apart from small
C20_Witness ==
    /\ SizeFitRan
    /\ ms_call.company_size = "Enterprise"
    /\ ms_call.target_market = "small business owners"
    /\ ms_call.score = Pts(70)

GeographicFitRan == ms_call.op = "geographic_fit"

\* a location as it is compared: lower-cased and trimmed
Compared(list) == {Strip(Lower(list[i])) : i \in 1..Len(list)}

\* the score of one (candidate location, profile location) pair
PairScore(a, b) ==
    IF Contains(a, b) \/ Contains(b, a) THEN Pts(85) ELSE SimilarityScore(a, b)

\* C21: geographic fit is 50 if either location list is empty; otherwise 100
\* if the lower-cased, trimmed lists share an element; otherwise the maximum
\* over all (candidate, profile) location pairs of 0.85 when one string
\* contains the other, else the similarity ratio, scaled to 0-100: a pair
\* in a substring relation gives at least 85, and the result is in [0, 100].
C21_GeographicFitByBestPair ==
    GeographicFitRan =>
        LET theirs == Compared(ms_call.company_locations)
            ours == Compared(ms_call.context_geography)
            pairs == {PairScore(a, b) : a \in theirs, b \in ours}
        IN /\ InRange(ms_call.score)
           /\ IF theirs = {} \/ ours = {} THEN ms_call.score = Pts(50)
              ELSE IF theirs \cap ours # {} THEN ms_call.score = Pts(100)
              ELSE /\ ms_call.score \in pairs
                   /\ \A p \in pairs : p <= ms_call.score
                   /\ (\E a \in theirs, b \in ours : Contains(a, b) \/ Contains(b, a))
                         => ms_call.score >= Pts(85)

\* "Berlin, Germany" holds "germany" without being it: 85
C21_Witness ==
    /\ GeographicFitRan
    /\ ms_call.company_locations = <<"Berlin, Germany">>
    /\ ms_call.context_geography = <<"Germany", "Austria">>
    /\ ms_call.score = Pts(85)

ConfidenceRan == ms_call.op = "confidence"

\* the number of populated fields among the 8 counted ones
Populated(company, context) ==
    Cardinality({f \in {"name", "description", "size_estimate"} :
                    company[f] # "" /\ (f = "size_estimate" => Lower(company[f]) # "unknown")})
    + Cardinality({f \in {"locations"} : Len(company[f]) > 0})
    + Cardinality({f \in {"industry", "target_market"} : context[f] # ""})
    + Cardinality({f \in {"products_services", "geography"} : Len(context[f]) > 0})

\* C22: with n the number of populated fields among the 8 counted ones
\* (candidate name, description, locations, size other than "Unknown";
\* profile industry, products, target_market, geography), confidence is High
\* iff n >= 6, Medium iff 4 <= n <= 5, Low iff n <= 3.
C22_ConfidenceByPopulatedFields ==
    ConfidenceRan =>
        LET n == Populated(ms_call.company, ms_call.context)
        IN /\ (ms_call.confidence = "High") <=> (n >= 6)
           /\ (ms_call.confidence = "Medium") <=> (4 <= n /\ n <= 5)
           /\ (ms_call.confidence = "Low") <=> (n <= 3)

\* exactly six populated fields, the size "UNKNOWN" not among them: High
C22_Witness ==
    /\ ConfidenceRan
    /\ Populated(ms_call.company, ms_call.context) = 6
    /\ ms_call.company.size_estimate = "UNKNOWN"
    /\ ms_call.confidence = "High"

(***************************************************************************)
(* Claims about DiscoveryResult and CompanyInfo (checked under SpecRes)    *)
(***************************************************************************)
DeduplicateRan == res_call.op \in {"deduplicate", "parser_deduplicate"}

\* the (lower-cased name, lower-cased website) pair of a record
NameSitePair(company) == <<Lower(company.name), Lower(company.website)>>

\* the positions of a list that hold the first occurrence of their pair
FirstOccurrences(list) ==
    {i \in 1..Len(list) : \A j \in 1..(i - 1) : NameSitePair(list[j]) # NameSitePair(list[i])}

\* C24: after SearchResultParser.deduplicate_companies and after
\* DiscoveryResult.deduplicate_companies no two remaining companies have the
\* same (lower-cased name, lower-cased website) pair, the first occurrence
\* of each pair is the one kept, the order of the survivors is unchanged,
\* and applying the operation again changes nothing.
C24_DeduplicationKeepsFirstOfEachPair ==
    DeduplicateRan =>
        LET input == res_call.input
            output == res_call.output
            first == FirstOccurrences(input)
        IN /\ \A i, j \in 1..Len(output) :
                 NameSitePair(output[i]) = NameSitePair(output[j]) => i = j
           /\ Len(output) = Cardinality(first)
           /\ \A k \in 1..Len(output) :
                 output[k] = input[CHOOSE i \in first :
                                      Cardinality({j \in first : j <= i}) = k]
           /\ deduplicate_companies(output) = output
           /\ res_call.op = "deduplicate" => res_companies = output

\* "ACME CORP" after "Acme Corp" is dropped, the other name on the same
\* site is kept, in the order given
C24_Witness ==
    /\ res_call.op = "deduplicate"
    /\ res_call.input = <<AcmeCompany, AcmeUpperCompany, AcmeMirror>>
    /\ res_companies = <<AcmeCompany, AcmeMirror>>

\* C30: CompanyInfo equality and hashing are consistent: two records that
\* compare equal (same lower-cased name or same lower-cased website, an
\* empty website included) have equal hashes, and equality is transitive,
\* so that set membership and DiscoveryResult.add_company agree on which
\* records are duplicates.
C30_EqualityAndHashAgree ==
    /\ res_call.op = "compare" =>
          /\ res_call.eq_ab => res_call.hash_a = res_call.hash_b
          /\ (res_call.eq_ab /\ res_call.eq_bc) => res_call.eq_ac
    /\ res_call.op = "add_company" =>
          (res_companies = res_call.before) <=> res_call.in_set


EnrichRan == res_call.op = "enrich"

\* the JSON object of an enrichment response, when there is one
EnrichmentData(outcome) ==
    IF outcome.raised \/ ~Contains(outcome.text, "{") \/ ~Contains(outcome.text, "}")
    THEN None
    ELSE LET loaded == JsonLoads(SubSeq(outcome.text, IndexOf(outcome.text, "{"),
                                        RIndexOf(outcome.text, "}")))
         IN IF loaded.ok /\ loaded.value.j = "dict" THEN Some(loaded.value.d) ELSE None

\* the field was given the non-empty value the JSON object has under its name
TakenFromJson(data, field, value) ==
    /\ data # None
    /\ field \in DOMAIN data[1]
    /\ data[1][field].j = "list" => data[1][field].l # <<>>
    /\ data[1][field].j = "str" => data[1][field].s # ""
    /\ value = IF data[1][field].j = "list" THEN [i \in 1..Len(data[1][field].l) |->
                                                     data[1][field].l[i].s]
              ELSE data[1][field].s

\* C27: enrichment is frame-preserving: _enrich_company_info and
\* _enrich_partner_info return the company they were given; name, website,
\* sources, match_score and rationale are never changed; description,
\* locations and size_estimate change only to a non-empty value of the
\* parsed JSON object; and when the call raises or the response holds no
\* parseable JSON the company keeps every field.
C27_EnrichmentPreservesFrame ==
    EnrichRan =>
        LET before == res_call.before
            after == res_call.after
            data == EnrichmentData(res_call.outcome)
        IN /\ res_call.returned = after
           /\ \A field \in {"name", "website", "sources", "match_score", "rationale"} :
                 after[field] = before[field]
           /\ \A field \in {"description", "locations", "size_estimate"} :
                 after[field] # before[field] => TakenFromJson(data, field, after[field])
           /\ data = None => after = before

\* a scored and explained partner enriched from a response that has a size
\* but an empty description and no location
C27_Witness ==
    /\ EnrichRan
    /\ res_call.before = ScoredAcme
    /\ res_call.outcome = Returns(EnrichSizeJson)
    /\ res_call.after = [ScoredAcme EXCEPT !.size_estimate = "250 employees"]

(***************************************************************************)
(* Claims about the size of the result (checked under SpecCap)             *)
(***************************************************************************)
MaxPassedOn == IF orch = "customer" THEN CUSTOMER_MAX_CANDIDATES ELSE PARTNER_MAX_CANDIDATES

\* the relevance filter has returned
Filtered == run.relevant_candidates # None

\* the candidate's relevance was not below the threshold: its cached score,
\* or the neutral 0.5 of a call that failed
PassedThreshold(company) ==
    LET key == make_cache_key(company, run_context[1], orch)
    IN IF key \in DOMAIN score_cache THEN score_cache[key] >= RELEVANCE_THRESHOLD
       ELSE NEUTRAL_RELEVANCE >= RELEVANCE_THRESHOLD

\* C25: the size of the result is capped: CustomerDiscovery.discover passes
\* at most 20 filtered candidates on, PartnerDiscovery.discover at most 10;
\* the result holds at most min(target_count, 20) and min(target_count, 10)
\* companies; a customer run makes one enrichment call per returned company;
\* and every returned company is one of the candidates of the search step
\* and passed the threshold filter.
C25_ResultSizeCapped ==
    /\ Filtered => Len(run.relevant_candidates[1]) <= MaxPassedOn
    /\ Returned =>
          /\ Len(Result.companies) <= Min(target_count, MaxPassedOn)
          /\ orch = "customer" => calls.enrich = Len(Result.companies)
          /\ \A i \in 1..Len(Result.companies) :
                /\ Result.companies[i] \in Range(run.candidates[1])
                /\ Result.companies[i] \in Range(run.relevant_candidates[1])
                /\ PassedThreshold(Result.companies[i])
====
